---------------------------- MODULE Spec2Model ----------------------------
(***************************************************************************)
(* A model of the GPX track page of aionWebpage: the tree builder          *)
(* (fetchGpxTree / insertPath), the track info parser (parseGpxInfo,       *)
(* getGpxFirstDate), the date sort (sortTreeByDate, findMostRecentTrack)   *)
(* and the page initialisation chain of mainscript.js.                     *)
(*                                                                         *)
(* JavaScript strings are modelled as tuples of one-character strings, so  *)
(* that startsWith, endsWith, slice and split are computed character by    *)
(* character.  JavaScript objects are records; the object literal {} is    *)
(* the record with no field.  A JavaScript number is a record              *)
(* [nan, val]: val is an integer, NaN is the number with nan = TRUE.        *)
(***************************************************************************)
EXTENDS Integers, Sequences, FiniteSets, TLC

VARIABLES
    response,   \* what the GitHub tree request answers (input of fetchGpxTree)
    tree,       \* the node fetchGpxTree resolved to; sortTreeByDate sorts it in place
    treePc,     \* "start" before fetchGpxTree is called, "resolved" after
    gpxText,    \* the GPX text handed to parseGpxInfo
    info,       \* the TrackInfo parseGpxInfo returned
    gpxPc,      \* "start" before parseGpxInfo is called, "parsed" after
    page,       \* "root" (mainscript.js) or "maps" (maps/mainscript.js)
    remote,     \* what raw.githubusercontent.com answers for each listed path
    sortedTree, \* the value sortTreeByDate resolved to in the init callback
    pagePc,     \* how far the callback of fetchGpxTree().then has run
    checkboxes, \* the inputs under #trackCheckboxes, in document order
    boatMarker, \* the module variable boatMarker of map.js
    fallbackView, \* fallbackView.center
    mapView,    \* the centre last given to map.setView
    loadedTracks, \* the keys of loadedTracks
    completion, \* whether the lookups of a Promise.all completed in issue order
    resorted,   \* sortedTree before and after sortTreeByDate was applied to it
    recentTrack, \* what findMostRecentTrack(tree) resolved to
    folderStats, \* what getFolderStats(tree) resolved to
    variant,    \* which sortTreeByDate runs step by step
    work,       \* the tree while sortTreeByDate sorts it in place, step by step
    phase,      \* for each folder, where its sortTreeByDate call stands
    layers,     \* the L.GPX layers addTrackToMap has created, in order
    onMap,      \* the layers the map holds
    trackLayers, \* loadedTracks: for each key the layer it holds
    lastCall,   \* the last call of addTrackToMap or removeTrackFromMap
    isBulkUpdating, \* the module variable isBulkUpdating of create_ui.js
    search, \* window.location.search
    urlTracks, \* the filenames the initialisation read from ?tracks=
    uiPc,\* where the script of the page stands after the track list is built
    fileColorMap, \* globalColorMap / fileColorMap: the colour of each key
    colorIndex, \* globalColorIndex.value / colorIndex
    assigned, \* the keys in the order they were given a colour
    displayed,\* for each key the colours its tracks were drawn in
    lastEvent,\* the last click on the track list or on a button above it
    boatCalls, \* the calls of addBoatMarker: where each stands, what it found
    markers, \* the boat markers the map holds
    markerCount,\* how many boat markers L.marker has created
    summary,\* the text formatDurationDistance returned for info
    selected,\* what updateUrlParams found checked when it wrote the address
    clicks,\* the clicks on the track list while the page opened again waits for the host
    engine \* how Array.prototype.sort of the JavaScript engine sorts a short array

treeVars == <<response, tree, treePc>>

gpxVars == <<gpxText, info, gpxPc>>

pageVars ==
    <<page, remote, sortedTree, pagePc, checkboxes, boatMarker, fallbackView,
      mapView, loadedTracks>>

probeVars == <<completion, resorted, recentTrack, folderStats>>

stepVars == <<variant, work, phase>>

layerVars == <<layers, onMap, trackLayers, lastCall>>

uiVars == <<isBulkUpdating, search, urlTracks, uiPc>>

colorVars == <<fileColorMap, colorIndex, assigned, displayed>>

eventVars == <<lastEvent>>

boatVars == <<boatCalls, markers, markerCount>>

formatVars == <<summary>>

addressVars == <<selected, clicks>>

engineVars == <<engine>>

vars ==
    <<treeVars, gpxVars, pageVars, probeVars, stepVars, layerVars, uiVars, colorVars, eventVars, boatVars, formatVars, addressVars, engineVars>>

-----------------------------------------------------------------------------
(* Strings *)

S == <<"/">>

DotGpx == <<".", "g", "p", "x">>

\* src/constants.js:16
GPX_DIRECTORY == <<"g", "p", "x", "F", "i", "l", "e", "s">>

\* String.prototype.startsWith
StartsWith(s, p) ==
    /\ Len(p) <= Len(s)
    /\ \A i \in 1..Len(p) : s[i] = p[i]

\* String.prototype.endsWith
EndsWith(s, suf) ==
    /\ Len(suf) <= Len(s)
    /\ \A i \in 1..Len(suf) : s[Len(s) - Len(suf) + i] = suf[i]

\* String.prototype.slice(n), 0 <= n
Slice(s, n) == IF n >= Len(s) THEN <<>> ELSE SubSeq(s, n + 1, Len(s))

\* String.prototype.split(sep) for a one-character separator: the pieces
\* between the separators, empty pieces kept.
RECURSIVE SplitFrom(_, _, _, _)
SplitFrom(s, sep, i, cur) ==
    IF i > Len(s) THEN <<cur>>
    ELSE IF s[i] = sep THEN <<cur>> \o SplitFrom(s, sep, i + 1, <<>>)
    ELSE SplitFrom(s, sep, i + 1, Append(cur, s[i]))

Split(s, sep) == SplitFrom(s, sep, 1, <<>>)

\* Array.prototype.slice(1)
Rest(parts) == Slice(parts, 1)

-----------------------------------------------------------------------------
(* Objects used as mappings.  node.subfolders is an object literal: it is  *)
(* modelled as the sequence of its own properties [key, node] in the order *)
(* Object.keys / Object.entries / Object.values enumerate them.            *)

Digits == {"0", "1", "2", "3", "4", "5", "6", "7", "8", "9"}

DigitVal(c) ==
    CASE c = "0" -> 0 [] c = "1" -> 1 [] c = "2" -> 2 [] c = "3" -> 3
      [] c = "4" -> 4 [] c = "5" -> 5 [] c = "6" -> 6 [] c = "7" -> 7
      [] c = "8" -> 8 [] c = "9" -> 9

\* a > b for two decimal numerals without leading zeros, compared digit by
\* digit so that no numeral leaves the range of the integers
NumeralGreater(a, b) ==
    \/ Len(a) > Len(b)
    \/ /\ Len(a) = Len(b)
       /\ \E i \in 1..Len(a) :
             /\ DigitVal(a[i]) > DigitVal(b[i])
             /\ \A j \in 1..(i - 1) : a[j] = b[j]

\* 2^32 - 2, the largest array index
MaxArrayIndex == <<"4", "2", "9", "4", "9", "6", "7", "2", "9", "4">>

\* A property key that is a canonical array index ("0", "7", "2024", not
\* "007", not above 2^32 - 2): such keys are enumerated first, in ascending
\* numeric order; every other key, a longer numeral included, is
\* enumerated in creation order.
IsArrayIndex(k) ==
    /\ Len(k) >= 1
    /\ \A i \in 1..Len(k) : k[i] \in Digits
    /\ (Len(k) = 1 \/ k[1] # "0")
    /\ ~NumeralGreater(k, MaxArrayIndex)

HasOwn(obj, k) == \E i \in 1..Len(obj) : obj[i].key = k

OwnIndex(obj, k) == CHOOSE i \in 1..Len(obj) : obj[i].key = k

\* Where a new own property k is enumerated: an array index goes before the
\* first larger array index and before every other key; any other key goes
\* last (creation order).
InsertPos(obj, k) ==
    IF IsArrayIndex(k)
    THEN LET later == {i \in 1..Len(obj) :
                          \/ ~IsArrayIndex(obj[i].key)
                          \/ NumeralGreater(obj[i].key, k)}
         IN IF later = {} THEN Len(obj) + 1
            ELSE CHOOSE i \in later : \A j \in later : i <= j
    ELSE Len(obj) + 1

\* obj[k] = v
SetProp(obj, k, v) ==
    IF HasOwn(obj, k)
    THEN [obj EXCEPT ![OwnIndex(obj, k)] = [key |-> k, node |-> v]]
    ELSE LET p == InsertPos(obj, k)
         IN SubSeq(obj, 1, p - 1) \o <<[key |-> k, node |-> v]>>
              \o SubSeq(obj, p, Len(obj))

\* The twelve property names every object literal inherits from
\* Object.prototype: constructor, hasOwnProperty, isPrototypeOf,
\* propertyIsEnumerable, toLocaleString, toString, valueOf,
\* __defineGetter__, __defineSetter__, __lookupGetter__, __lookupSetter__
\* and __proto__.
ObjectPrototypeKeys ==
    { <<"c", "o", "n", "s", "t", "r", "u", "c", "t", "o", "r">>,
      <<"h", "a", "s", "O", "w", "n", "P", "r", "o", "p", "e", "r", "t", "y">>,
      <<"i", "s", "P", "r", "o", "t", "o", "t", "y", "p", "e", "O", "f">>,
      <<"p", "r", "o", "p", "e", "r", "t", "y", "I", "s", "E", "n", "u", "m", "e", "r", "a", "b", "l", "e">>,
      <<"t", "o", "L", "o", "c", "a", "l", "e", "S", "t", "r", "i", "n", "g">>,
      <<"t", "o", "S", "t", "r", "i", "n", "g">>,
      <<"v", "a", "l", "u", "e", "O", "f">>,
      <<"_", "_", "d", "e", "f", "i", "n", "e", "G", "e", "t", "t", "e", "r", "_", "_">>,
      <<"_", "_", "d", "e", "f", "i", "n", "e", "S", "e", "t", "t", "e", "r", "_", "_">>,
      <<"_", "_", "l", "o", "o", "k", "u", "p", "G", "e", "t", "t", "e", "r", "_", "_">>,
      <<"_", "_", "l", "o", "o", "k", "u", "p", "S", "e", "t", "t", "e", "r", "_", "_">>,
      <<"_", "_", "p", "r", "o", "t", "o", "_", "_">> }

Undefined == [undefined |-> TRUE]

\* obj[k]: the own property, else the inherited one (a built-in, which has
\* neither files nor subfolders), else undefined.
GetProp(obj, k) ==
    IF HasOwn(obj, k) THEN obj[OwnIndex(obj, k)].node
    ELSE IF k \in ObjectPrototypeKeys THEN [builtin |-> k]
    ELSE Undefined

TypeError == [error |-> "TypeError"]

IsError(v) == "error" \in DOMAIN v

\* The object literal {}
EmptyObject == <<>>

-----------------------------------------------------------------------------
(* Tree builder: src/fetch_tree.js *)

\* { name, files: [], subfolders: {} }
NewNode(n) == [name |-> n, files |-> <<>>, subfolders |-> <<>>]

\* insertPath(node, parts, fullPath): the node after the insertion, or
\* TypeError when the walk reads files or subfolders of a value that has
\* none (node.files.push / node.subfolders[...] of undefined).
\* insertPath that forgets to walk down the folder segments.
insertPathNoDescend(node, parts, fullPath) ==
    IF "files" \in DOMAIN node
    THEN [node EXCEPT !.files = Append(@, fullPath)]
    ELSE TypeError

RECURSIVE insertPath(_, _, _)
insertPath(node, parts, fullPath) ==
    IF Len(parts) = 1
    THEN IF "files" \in DOMAIN node
         THEN [node EXCEPT !.files = Append(@, fullPath)]
         ELSE TypeError
    ELSE IF "subfolders" \notin DOMAIN node THEN TypeError
    ELSE LET folderName == parts[1]
             found == GetProp(node.subfolders, folderName)
             withFolder ==
                 IF found = Undefined
                 THEN SetProp(node.subfolders, folderName, NewNode(folderName))
                 ELSE node.subfolders
             child == IF found = Undefined THEN NewNode(folderName) ELSE found
             sub == insertPath(child, Rest(parts), fullPath)
         IN IF IsError(sub) THEN TypeError
            ELSE [node EXCEPT
                    !.subfolders = SetProp(withFolder, folderName, sub)]

\* The filter of data.tree.forEach
Accepted(path) ==
    /\ StartsWith(path, GPX_DIRECTORY \o S)
    /\ EndsWith(path, DotGpx)

\* data.tree.forEach(item => ...) from item i on; an exception leaves the
\* loop at once.
RECURSIVE ForEachItem(_, _, _)
ForEachItem(root, items, i) ==
    IF IsError(root) \/ i > Len(items) THEN root
    ELSE IF Accepted(items[i])
    THEN LET relativePath == Slice(items[i], Len(GPX_DIRECTORY) + 1)
             parts == Split(relativePath, "/")
         IN ForEachItem(insertPath(root, parts, items[i]), items, i + 1)
    ELSE ForEachItem(root, items, i + 1)

\* fetchGpxTree(): the value the returned promise resolves to.  resp.kind is
\* "fetchThrows" (fetch rejects), "jsonThrows" (response.json() rejects),
\* "noTree" (the decoded body has no tree property) or "tree" (resp.paths is
\* the list of item.path of data.tree).
fetchGpxTree(resp) ==
    IF resp.kind \in {"fetchThrows", "jsonThrows"} THEN EmptyObject
    ELSE IF resp.kind = "noTree" THEN EmptyObject
    ELSE LET root == ForEachItem(NewNode(GPX_DIRECTORY), resp.paths, 1)
         IN IF IsError(root) THEN EmptyObject ELSE root

\* The copy of the tree builder the maps page loads: the listing is that of
\* the whole repository, the page and its tracks live under maps/.
WEBPAGE_ROOT_DIRECTORY == <<"m", "a", "p", "s">>

AcceptedMaps(path) ==
    /\ StartsWith(path, WEBPAGE_ROOT_DIRECTORY \o S \o GPX_DIRECTORY \o S)
    /\ EndsWith(path, DotGpx)

RECURSIVE ForEachItemMaps(_, _, _)
ForEachItemMaps(root, items, i) ==
    IF IsError(root) \/ i > Len(items) THEN root
    ELSE IF AcceptedMaps(items[i])
    THEN LET localPath == Slice(items[i], Len(WEBPAGE_ROOT_DIRECTORY) + 1)
             relativePath == Slice(localPath, Len(GPX_DIRECTORY) + 1)
             parts == Split(relativePath, "/")
         IN ForEachItemMaps(insertPath(root, parts, localPath), items, i + 1)
    ELSE ForEachItemMaps(root, items, i + 1)

fetchGpxTreeMaps(resp) ==
    IF resp.kind \in {"fetchThrows", "jsonThrows"} THEN EmptyObject
    ELSE IF resp.kind = "noTree" THEN EmptyObject
    ELSE LET root == ForEachItemMaps(NewNode(GPX_DIRECTORY), resp.paths, 1)
         IN IF IsError(root) THEN EmptyObject ELSE root

\* The tree as fetchGpxTree() of the page's module resolved it, before
\* anything sorted it in place
FetchedTree ==
    IF page = "maps" THEN fetchGpxTreeMaps(response)
                     ELSE fetchGpxTree(response)

-----------------------------------------------------------------------------
(* Inputs of the tree builder *)

\* The longest remote listing drawn
MaxListing == 3

File1 == <<"1">> \o DotGpx

File2 == <<"2">> \o DotGpx

File3 == <<"3">> \o DotGpx

PathRootFile == GPX_DIRECTORY \o S \o File1

PathInA == GPX_DIRECTORY \o S \o <<"a">> \o S \o File2

PathInAB == GPX_DIRECTORY \o S \o <<"a">> \o S \o <<"b">> \o S \o File3

PathInDigits == GPX_DIRECTORY \o S \o <<"7">> \o S \o File1

PathUpperSuffix == GPX_DIRECTORY \o S \o <<"a", "/", "5", ".", "G", "P", "X">>

PathOtherSuffix == GPX_DIRECTORY \o S \o <<"a", "/", "n", ".", "m", "d">>

PathOtherDir == <<"o", "/">> \o File1

PathNoSlash == GPX_DIRECTORY \o DotGpx

PathDirLikeFile == GPX_DIRECTORY \o S \o <<"b">> \o DotGpx

PathUnderDirLikeFile == PathDirLikeFile \o S \o File2

PathInConstructor ==
    GPX_DIRECTORY \o S
      \o <<"c", "o", "n", "s", "t", "r", "u", "c", "t", "o", "r">> \o S \o File3

ListingPaths ==
    { PathRootFile, PathInA, PathInAB, PathInDigits, PathUpperSuffix,
      PathOtherSuffix, PathOtherDir, PathNoSlash, PathDirLikeFile,
      PathUnderDirLikeFile, PathInConstructor }

\* The listing of the maps page is that of the whole repository: the same
\* entries under maps/, and the track of the root page beside them
MapsListingPaths ==
    {WEBPAGE_ROOT_DIRECTORY \o S \o p : p \in ListingPaths} \cup {PathRootFile}

SeqsUpTo(set, n) == UNION {[1..k -> set] : k \in 0..n}

\* What the request of the listing can answer on a page
Responses(pg) ==
    {[kind |-> k, paths |-> <<>>] : k \in {"fetchThrows", "jsonThrows", "noTree"}}
      \cup {[kind |-> "tree", paths |-> l] :
               l \in SeqsUpTo(IF pg = "maps" THEN MapsListingPaths
                                             ELSE ListingPaths, MaxListing)}

-----------------------------------------------------------------------------
(* The tree builder as a state machine: one call of fetchGpxTree *)

\* The parts of the state a specification does not use stay as they are here.
IdleTree == response = [kind |-> "noTree", paths |-> <<>>] /\ tree = Undefined /\ treePc = "idle"

IdleGpx == gpxText = <<>> /\ info = Undefined /\ gpxPc = "idle"

\* null where a string is expected, and null where an object is expected
Null == <<"null">>

NullObject == [null |-> TRUE]

\* fallbackView.center as the module constants.js sets it, in millionths of a
\* degree
DefaultCenter == [lat |-> 39279545, lon |-> -76584707]

\* The page before its script runs: map.js has centred the map on the
\* fallback view, nothing is listed, nothing is loaded.
BlankPage ==
    /\ sortedTree = Undefined
    /\ checkboxes = <<>>
    /\ boatMarker = NullObject
    /\ fallbackView = DefaultCenter
    /\ mapView = DefaultCenter
    /\ loadedTracks = {}

IdlePage == page = "root" /\ remote = <<>> /\ pagePc = "idle" /\ BlankPage

IdleProbe ==
    /\ completion = "none"
    /\ resorted = Undefined
    /\ recentTrack = Null
    /\ folderStats = Undefined

NoCall == [op |-> "none", file |-> <<>>, finished |-> FALSE]

IdleLayers ==
    /\ layers = <<>>
    /\ onMap = {}
    /\ trackLayers = <<>>
    /\ lastCall = NoCall

IdleSteps == variant = "none" /\ work = Undefined /\ phase = <<>>

IdleUi ==
    /\ isBulkUpdating = FALSE
    /\ search = <<>>
    /\ urlTracks = <<>>
    /\ uiPc = "idle"

IdleColor ==
    /\ fileColorMap = <<>>
    /\ colorIndex = 0
    /\ assigned = <<>>
    /\ displayed = <<>>

IdleEvent ==
    lastEvent = [kind |-> "none", target |-> 0, value |-> FALSE]

IdleBoat ==
    /\ boatCalls = <<>>
    /\ markers = {}
    /\ markerCount = 0

IdleFormat ==
    summary = <<>>

IdleAddress ==
    /\ selected = [tracks |-> <<>>, bulk |-> FALSE]
    /\ clicks = 0

IdleEngine ==
    engine = "binaryInsertion"

InitTree ==
    /\ page \in {"root", "maps"}
    /\ response \in Responses(page)
    /\ tree = Undefined
    /\ treePc = "start"
    /\ remote = <<>>
    /\ pagePc = "idle"
    /\ BlankPage
    /\ IdleGpx
    /\ IdleProbe
    /\ IdleSteps
    /\ IdleLayers
    /\ IdleEngine
    /\ IdleAddress
    /\ IdleFormat
    /\ IdleBoat
    /\ IdleEvent
    /\ IdleColor
    /\ IdleUi

\* fetchGpxTree() of the module the page imports
FetchGpxTree ==
    /\ treePc = "start"
    /\ tree' = IF page = "maps" THEN fetchGpxTreeMaps(response)
                               ELSE fetchGpxTree(response)
    /\ treePc' = "resolved"
    /\ UNCHANGED <<response, gpxVars, engineVars, addressVars, formatVars, boatVars, eventVars, colorVars, uiVars, pageVars, probeVars, stepVars, layerVars>>

NextTree == FetchGpxTree

SpecTree == InitTree /\ [][NextTree]_vars

-----------------------------------------------------------------------------
(* What a tree holds *)

IsTreeNode(v) == DOMAIN v = {"name", "files", "subfolders"}

Range(seq) == {seq[i] : i \in 1..Len(seq)}

\* The pairs <<prefix, file>> of a tree: file is held by the node reached
\* through the nodes whose names, each followed by "/", make up prefix.
RECURSIVE Leaves(_, _)
Leaves(node, prefix) ==
    IF ~IsTreeNode(node) THEN {}
    ELSE {<<prefix, node.files[i]>> : i \in 1..Len(node.files)}
           \cup UNION {Leaves(node.subfolders[i].node,
                              prefix \o node.subfolders[i].node.name \o S) :
                         i \in 1..Len(node.subfolders)}

\* The folders of a tree below its root, each as its path with a final "/".
RECURSIVE Folders(_, _)
Folders(node, prefix) ==
    IF ~IsTreeNode(node) THEN {}
    ELSE UNION {{prefix \o node.subfolders[i].key \o S}
                  \cup Folders(node.subfolders[i].node,
                               prefix \o node.subfolders[i].key \o S) :
                  i \in 1..Len(node.subfolders)}

TreeLeaves == IF IsTreeNode(tree) THEN Leaves(tree, tree.name \o S) ELSE {}

TreeFolders == IF IsTreeNode(tree) THEN Folders(tree, tree.name \o S) ELSE {}

TreeFileIds == {l[2] : l \in TreeLeaves}

\* The filter of data.tree.forEach of the page's copy
AcceptedOn(path) ==
    IF page = "maps" THEN AcceptedMaps(path) ELSE Accepted(path)

\* The file identifier the page's copy hands to insertPath for an accepted
\* entry: item.path in fetch_tree.js, localPath in maps/create_ui.js
IdentifierOf(path) ==
    IF page = "maps" THEN Slice(path, Len(WEBPAGE_ROOT_DIRECTORY) + 1) ELSE path

\* The listing entries the page's copy accepts
AcceptedEntries == {p \in Range(response.paths) : AcceptedOn(p)}

LastSegment(path) == LET parts == Split(path, "/") IN parts[Len(parts)]

\* C1: once fetchGpxTree has resolved on a listing, the file identifiers held
\* anywhere in the tree are exactly the listing entries that start with
\* GPX_DIRECTORY + "/" and end with ".gpx"; on the maps page, whose tracks
\* lie under maps/, the entries that start with maps/ + GPX_DIRECTORY + "/",
\* each held without the leading "maps/".
C1_FilesAreTheAcceptedEntries ==
    (treePc = "resolved" /\ response.kind = "tree")
        => TreeFileIds = {IdentifierOf(p) : p \in AcceptedEntries}

\* C1, where the claim's case happens: a resolved tree that holds a file,
\* built from a listing with a rejected entry.
C1_Witness ==
    /\ treePc = "resolved"
    /\ TreeFileIds # {}
    /\ PathUpperSuffix \in Range(response.paths)

\* C2 as it is stated: root name, "/", the chain of ancestor names, "/" and
\* the file name of every file held give back an entry of the listing, the
\* original input path, and a folder exists only for a directory segment of
\* an accepted entry, never for its last segment.
C2_LeavesReconstructListingEntries ==
    treePc = "resolved" =>
        /\ \A l \in TreeLeaves :
              /\ l[1] \o LastSegment(l[2]) = l[2]
              /\ l[1] \o LastSegment(l[2]) \in Range(response.paths)
        /\ \A f \in TreeFolders :
              \E p \in AcceptedEntries : StartsWith(IdentifierOf(p), f)

\* C2: every file identifier of the tree sits in the node whose chain of
\* ancestor names is the directory part of the identifier (root name, "/",
\* chain, "/", file name give back the identifier), the identifier is the
\* path handed to insertPath for an accepted entry of the listing (the entry
\* itself on the root page, the entry without the leading "maps/" on the
\* maps page), and a folder exists only for a directory segment of such a
\* path, never for its last segment.
C2_LeavesReconstructPaths ==
    treePc = "resolved" =>
        /\ \A l \in TreeLeaves :
              /\ l[1] \o LastSegment(l[2]) = l[2]
              /\ \E p \in AcceptedEntries : IdentifierOf(p) = l[2]
        /\ \A f \in TreeFolders :
              \E p \in AcceptedEntries : StartsWith(IdentifierOf(p), f)

\* C2, where the claim's case happens: on the maps page a file two folders
\* below the root, and a file whose name is also the name of a folder; the
\* listing holds both under maps/.
C2_Witness ==
    /\ treePc = "resolved"
    /\ page = "maps"
    /\ <<GPX_DIRECTORY \o S \o <<"a", "/", "b", "/">>, PathInAB>> \in TreeLeaves
    /\ (WEBPAGE_ROOT_DIRECTORY \o S \o PathInAB) \in Range(response.paths)
    /\ PathDirLikeFile \in TreeFileIds
    /\ (PathDirLikeFile \o S) \in TreeFolders

\* C3: when the listing cannot be fetched or decoded, or has no tree
\* entries, fetchGpxTree resolves to the empty TreeNode: name the configured
\* root, files empty, subfolders empty.
C3_EmptyTreeNodeOnFailure ==
    (treePc = "resolved" /\ (response.kind # "tree" \/ response.paths = <<>>))
        => tree = NewNode(GPX_DIRECTORY)

-----------------------------------------------------------------------------
(* Numbers.  val is an integer; NaN is contagious and compares false.      *)

Num(v) == [nan |-> FALSE, val |-> v]

NaN == [nan |-> TRUE, val |-> 0]

IsNaN(x) == x.nan

\* a + b
NumAdd(a, b) == IF a.nan \/ b.nan THEN NaN ELSE Num(a.val + b.val)

\* a - b
NumSub(a, b) == IF a.nan \/ b.nan THEN NaN ELSE Num(a.val - b.val)

\* a / 1000, for the multiples of 1000 the model draws
NumDiv1000(a) == IF a.nan THEN NaN ELSE Num(a.val \div 1000)

\* a > b
NumGt(a, b) == ~a.nan /\ ~b.nan /\ a.val > b.val

\* a < b
NumLt(a, b) == ~a.nan /\ ~b.nan /\ a.val < b.val

-----------------------------------------------------------------------------
(* GPX texts.  A text is the sequence of its elements in document order.   *)
(* Time(c) is <time>c</time>; Trkpt(lat, lon) is <trkpt lat="lat"           *)
(* lon="lon">; TrkptLonFirst(lat, lon) is <trkpt lon="lon" lat="lat">.      *)

Time(c) == [tag |-> "time", text |-> c, lat |-> "", lon |-> ""]

Trkpt(la, lo) == [tag |-> "trkpt", text |-> "", lat |-> la, lon |-> lo]

TrkptLonFirst(la, lo) == [tag |-> "trkptLonFirst", text |-> "", lat |-> la, lon |-> lo]

\* new Date(str).getTime(): the instants drawn are whole seconds of
\* 1 January 1970, anything else is an Invalid Date (NaN).
DateParse(str) ==
    CASE str = "1970-01-01T00:00:00Z" -> Num(0)
      [] str = "1970-01-01T00:00:10Z" -> Num(10000)
      [] str = "1970-01-01T01:30:10Z" -> Num(5410000)
      [] OTHER -> NaN

\* new Date(0)
Epoch == Num(0)

\* parseFloat(str) of the attribute values drawn
ParseFloat(str) ==
    CASE str = "0" -> Num(0)
      [] str = "1" -> Num(1)
      [] OTHER -> NaN

\* An element /<time>([^<]+)<\/time>/ matches: the content is not empty.
MatchesTime(el) == el.tag = "time" /\ el.text # ""

\* An element /<trkpt lat="([^"]+)" lon="([^"]+)"/ matches: lat comes first
\* and neither value is empty.
MatchesTrkpt(el) == el.tag = "trkpt" /\ el.lat # "" /\ el.lon # ""

\* haversine(lat1, lon1, lat2, lon2) of parseGpxInfo on the points with
\* latitude and longitude 0 or 1 degree, in whole metres (the code's value
\* rounded): 111194.93 along the equator or a meridian, 111177.99 along the
\* parallel of 1 degree, 157249.38 across.
haversine(lat1, lon1, lat2, lon2) ==
    IF lat1.nan \/ lon1.nan \/ lat2.nan \/ lon2.nan THEN NaN
    ELSE IF lat1.val = lat2.val /\ lon1.val = lon2.val THEN Num(0)
    ELSE IF lon1.val = lon2.val THEN Num(111195)
    ELSE IF lat1.val = lat2.val
         THEN (IF lat1.val = 0 THEN Num(111195) ELSE Num(111178))
    ELSE Num(157249)

\* The for loop of parseGpxInfo from index i on (1-based), distanceMeters so far
RECURSIVE DistanceLoop(_, _, _)
DistanceLoop(coordMatches, i, distanceMeters) ==
    IF i > Len(coordMatches) THEN distanceMeters
    ELSE DistanceLoop(coordMatches, i + 1,
            NumAdd(distanceMeters,
                   haversine(ParseFloat(coordMatches[i - 1].lat),
                             ParseFloat(coordMatches[i - 1].lon),
                             ParseFloat(coordMatches[i].lat),
                             ParseFloat(coordMatches[i].lon))))

\* [...gpxText.matchAll(/<time>...)].map(m => new Date(m[1]))
TimeMatches(text) ==
    LET matched == SelectSeq(text, MatchesTime)
    IN [i \in 1..Len(matched) |-> DateParse(matched[i].text)]

\* Duration with the operands taken the wrong way round.
DurationSwapped(timeMatches) ==
    NumDiv1000(NumSub(timeMatches[1], timeMatches[Len(timeMatches)]))

\* Duration clamped at zero.
DurationClamped(timeMatches) ==
    LET d == NumDiv1000(NumSub(timeMatches[Len(timeMatches)], timeMatches[1]))
    IN IF ~d.nan /\ d.val < 0 THEN Num(0) ELSE d

\* (timeMatches[timeMatches.length - 1] - timeMatches[0]) / 1000
Duration(timeMatches) ==
    NumDiv1000(NumSub(timeMatches[Len(timeMatches)], timeMatches[1]))

\* parseGpxInfo whose first early return is taken only without any <time>.
parseGpxInfoGuardOne(text) ==
    LET timeMatches == TimeMatches(text)
    IN IF Len(timeMatches) < 1
       THEN [durationSeconds |-> Num(0), distanceMeters |-> Num(0)]
       ELSE LET durationSeconds == Duration(timeMatches)
                coordMatches == SelectSeq(text, MatchesTrkpt)
            IN IF Len(coordMatches) < 2
               THEN [durationSeconds |-> durationSeconds,
                     distanceMeters |-> Num(0)]
               ELSE [durationSeconds |-> durationSeconds,
                     distanceMeters |-> DistanceLoop(coordMatches, 2, Num(0))]

\* parseGpxInfo(gpxText)
parseGpxInfo(text) ==
    LET timeMatches == TimeMatches(text)
    IN IF Len(timeMatches) < 2
       THEN [durationSeconds |-> Num(0), distanceMeters |-> Num(0)]
       ELSE LET durationSeconds == Duration(timeMatches)
                coordMatches == SelectSeq(text, MatchesTrkpt)
            IN IF Len(coordMatches) < 2
               THEN [durationSeconds |-> durationSeconds,
                     distanceMeters |-> Num(0)]
               ELSE [durationSeconds |-> durationSeconds,
                     distanceMeters |-> DistanceLoop(coordMatches, 2, Num(0))]

-----------------------------------------------------------------------------
(* The track info parser as a state machine: one call of parseGpxInfo *)

\* The longest GPX text drawn, in elements
MaxElements == 4

GpxElements ==
    { Time("1970-01-01T00:00:10Z"), Time("1970-01-01T01:30:10Z"),
      Time("yesterday"), Time(""),
      Trkpt("0", "0"), Trkpt("0", "1"), Trkpt("1", "1"), Trkpt("north", "0"),
      TrkptLonFirst("0", "1") }

InitGpx ==
    /\ gpxText \in SeqsUpTo(GpxElements, MaxElements)
    /\ info = Undefined
    /\ gpxPc = "start"
    /\ IdleTree
    /\ IdlePage
    /\ IdleProbe
    /\ IdleSteps
    /\ IdleLayers
    /\ IdleEngine
    /\ IdleAddress
    /\ IdleFormat
    /\ IdleBoat
    /\ IdleEvent
    /\ IdleColor
    /\ IdleUi

ParseGpxInfo ==
    /\ gpxPc = "start"
    /\ info' = parseGpxInfo(gpxText)
    /\ gpxPc' = "parsed"
    /\ UNCHANGED <<gpxText, treeVars, engineVars, addressVars, formatVars, boatVars, eventVars, colorVars, uiVars, pageVars, probeVars, stepVars, layerVars>>

NextGpx == ParseGpxInfo

SpecGpx == InitGpx /\ [][NextGpx]_vars

-----------------------------------------------------------------------------
(* What a GPX text holds, read off the text itself *)

\* The contents of the <time> elements of gpxText that have one, in order
TimeTexts == LET m == SelectSeq(gpxText, MatchesTime)
             IN [i \in 1..Len(m) |-> m[i].text]

\* The <trkpt lat lon> points of gpxText, in order
Points == SelectSeq(gpxText, MatchesTrkpt)

IsInstant(str) == ~DateParse(str).nan

IsNumeric(str) == ~ParseFloat(str).nan

FirstTimeText == TimeTexts[1]

LastTimeText == TimeTexts[Len(TimeTexts)]

\* Metres between two points, by the table of haversine
Metres(p, q) ==
    haversine(ParseFloat(p.lat), ParseFloat(p.lon),
              ParseFloat(q.lat), ParseFloat(q.lon)).val

RECURSIVE PairwiseSum(_)
PairwiseSum(pts) ==
    IF Len(pts) < 2 THEN 0
    ELSE PairwiseSum(SubSeq(pts, 1, Len(pts) - 1))
           + Metres(pts[Len(pts) - 1], pts[Len(pts)])

\* C5: for a text with at least two <trkpt lat lon> points (numeric
\* coordinates), distanceMeters is not negative and is the sum of the
\* haversine distances of the consecutive pairs in document order, whatever
\* the number of <time> elements.
C5_DistanceIsPairwiseSum ==
    (/\ gpxPc = "parsed"
     /\ Len(Points) >= 2
     /\ \A i \in 1..Len(Points) : IsNumeric(Points[i].lat) /\ IsNumeric(Points[i].lon))
        => /\ ~info.distanceMeters.nan
           /\ info.distanceMeters.val >= 0
           /\ info.distanceMeters.val = PairwiseSum(Points)

\* C6: with at least two <time> elements, durationSeconds is the instant of
\* the last one minus the instant of the first one, in seconds, unclamped
\* (negative when the last precedes the first).
C6_DurationIsLastMinusFirst ==
    (/\ gpxPc = "parsed"
     /\ Len(TimeTexts) >= 2
     /\ IsInstant(FirstTimeText) /\ IsInstant(LastTimeText))
        => /\ ~info.durationSeconds.nan
           /\ info.durationSeconds.val * 1000
                = DateParse(LastTimeText).val - DateParse(FirstTimeText).val

\* C6, where the claim's case happens: the last timestamp precedes the first
\* and the duration returned is negative.
C6_Witness ==
    /\ gpxPc = "parsed"
    /\ Len(TimeTexts) >= 2
    /\ NumLt(DateParse(LastTimeText), DateParse(FirstTimeText))
    /\ info.durationSeconds = Num(-5400)

\* C7 as stated, on the texts whose <time> contents are all instants:
\* durationSeconds is never negative, and is zero with fewer than two
\* timestamps.
C7_DurationNeverNegative ==
    (gpxPc = "parsed" /\ \A i \in 1..Len(TimeTexts) : IsInstant(TimeTexts[i]))
        => /\ ~info.durationSeconds.nan
           /\ info.durationSeconds.val >= 0
           /\ (Len(TimeTexts) < 2 => info.durationSeconds = Num(0))

\* C7 as amended: durationSeconds is zero with fewer than two timestamps,
\* and is not negative whenever the first and the last timestamp are instants
\* with the first not after the last.
C7_DurationNonNegativeWhenOrdered ==
    gpxPc = "parsed" =>
        /\ (Len(TimeTexts) < 2 => info.durationSeconds = Num(0))
        /\ (/\ Len(TimeTexts) >= 2
            /\ IsInstant(FirstTimeText) /\ IsInstant(LastTimeText)
            /\ DateParse(FirstTimeText).val <= DateParse(LastTimeText).val)
               => (~info.durationSeconds.nan /\ info.durationSeconds.val >= 0)

\* C7, where the amended claim's case happens: two ordered timestamps and a
\* positive duration.
C7_Witness ==
    /\ gpxPc = "parsed"
    /\ Len(TimeTexts) >= 2
    /\ NumLt(DateParse(FirstTimeText), DateParse(LastTimeText))
    /\ info.durationSeconds = Num(5400)

\* C8: with no <time> element, or exactly one, durationSeconds is 0.
C8_ZeroDurationBelowTwoTimes ==
    (gpxPc = "parsed" /\ Len(TimeTexts) < 2)
        => info.durationSeconds = Num(0)

\* C8, where the claim's case happens: exactly one <time> element, and
\* track points, parsed.
C8_Witness ==
    /\ gpxPc = "parsed"
    /\ Len(TimeTexts) = 1
    /\ Len(Points) >= 2
    /\ info.durationSeconds = Num(0)

\* C9: parseGpxInfo never returns a statistic that is not a number, and for
\* a text with a <time> content that is no instant, or a lat or lon that is
\* no number, it returns durationSeconds = 0 and distanceMeters = 0.
C9_MalformedGivesDefaults ==
    gpxPc = "parsed" =>
        /\ ~info.durationSeconds.nan
        /\ ~info.distanceMeters.nan
        /\ ((\/ \E i \in 1..Len(TimeTexts) : ~IsInstant(TimeTexts[i])
             \/ \E i \in 1..Len(Points) :
                    ~IsNumeric(Points[i].lat) \/ ~IsNumeric(Points[i].lon))
               => info = [durationSeconds |-> Num(0), distanceMeters |-> Num(0)])

-----------------------------------------------------------------------------
(* The remote track files.  remote maps the path of a listed file to what  *)
(* the raw content host answers for it: a text, or a request that rejects. *)

Content(text) == [ok |-> TRUE, text |-> text]

FetchRejects == [ok |-> FALSE, text |-> <<>>]

\* The host answers an unknown path with a body that holds no GPX element.
NotFound == Content(<<>>)

\* The path fetchGpxText puts after the branch name in the URL
RawPath(gpxPath) ==
    IF page = "maps" THEN WEBPAGE_ROOT_DIRECTORY \o S \o gpxPath ELSE gpxPath

\* fetchGpxText(gpxPath): ok = FALSE when the returned promise rejects
fetchGpxText(gpxPath) ==
    IF RawPath(gpxPath) \in DOMAIN remote THEN remote[RawPath(gpxPath)]
    ELSE NotFound

\* getGpxFirstDate(gpxPath): the time value of the Date it resolves to
getGpxFirstDate(gpxPath) ==
    LET res == fetchGpxText(gpxPath)
    IN IF ~res.ok THEN Epoch
       ELSE LET match == SelectSeq(res.text, MatchesTime)
            IN IF Len(match) > 0 THEN DateParse(match[1].text) ELSE Epoch

\* The loop over the files with >= in place of >.
RECURSIVE MostRecentInFilesLastWins(_, _, _)
MostRecentInFilesLastWins(files, i, best) ==
    IF i > Len(files) THEN best
    ELSE LET date == getGpxFirstDate(files[i])
         IN MostRecentInFilesLastWins(files, i + 1,
                IF NumGt(date, best.date) \/ date = best.date
                THEN [track |-> files[i], date |-> date]
                ELSE best)

\* The loop over the files taking the first file whatever its date.
RECURSIVE MostRecentInFilesFirstTaken(_, _, _)
MostRecentInFilesFirstTaken(files, i, best) ==
    IF i > Len(files) THEN best
    ELSE LET date == getGpxFirstDate(files[i])
         IN MostRecentInFilesFirstTaken(files, i + 1,
                IF best.track = Null \/ NumGt(date, best.date)
                THEN [track |-> files[i], date |-> date]
                ELSE best)

\* findMostRecentTrack(node), for a node that has files and subfolders.
\* best is the pair of mostRecent and mostRecentDate.
RECURSIVE MostRecentInFiles(_, _, _)
MostRecentInFiles(files, i, best) ==
    IF i > Len(files) THEN best
    ELSE LET date == getGpxFirstDate(files[i])
         IN MostRecentInFiles(files, i + 1,
                IF NumGt(date, best.date)
                THEN [track |-> files[i], date |-> date]
                ELSE best)

RECURSIVE findMostRecentTrack(_)

RECURSIVE MostRecentInSubfolders(_, _, _)
MostRecentInSubfolders(subs, i, best) ==
    IF i > Len(subs) THEN best
    ELSE LET recent == findMostRecentTrack(subs[i].node)
         IN IF recent # Null
            THEN LET date == getGpxFirstDate(recent)
                 IN MostRecentInSubfolders(subs, i + 1,
                        IF NumGt(date, best.date)
                        THEN [track |-> recent, date |-> date]
                        ELSE best)
            ELSE MostRecentInSubfolders(subs, i + 1, best)

findMostRecentTrack(node) ==
    MostRecentInSubfolders(node.subfolders, 1,
        MostRecentInFiles(node.files, 1, [track |-> Null, date |-> Epoch])).track

-----------------------------------------------------------------------------
(* Array.prototype.sort.  The sort is stable, and a comparator result of   *)
(* NaN is read as +0.  With a consistent comparator every engine returns   *)
(* the one stable order.  A comparator that answers NaN for some pairs and *)
(* a sign for others is not consistent, and the order is then the one the  *)
(* engine's algorithm happens to leave: the same on every call with the    *)
(* same array, but not the same in every engine.  engine names the         *)
(* algorithm for the short arrays of a folder: "insertion" (insertion sort *)
(* from the right, as SpiderMonkey sorts fewer than 24 elements),          *)
(* "binaryInsertion" (the leading run is found, reversed when it strictly  *)
(* descends, and the rest inserted by binary search, as V8's TimSort sorts *)
(* fewer than 64 elements), "merge" (bottom-up merge sort, as              *)
(* JavaScriptCore sorts).                                                  *)

Engines == {"insertion", "binaryInsertion", "merge"}

Perms(n) == {p \in [1..n -> 1..n] : \A i, j \in 1..n : p[i] = p[j] => i = j}

\* (a, b) => a.date - b.date of fetch_tree.js
filesCompare(a, b) == NumSub(a.date, b.date)

\* (a, b) => b.date - a.date of the copy in maps/create_ui.js
filesCompareMaps(a, b) == NumSub(b.date, a.date)

\* (a, b) => b.date - a.date, the comparator of the folders in both copies
foldersCompare(a, b) == NumSub(b.date, a.date)

\* async ([aKey, a], [bKey, b]) => { ... } of the inline script: the call
\* returns a promise, and sort converts it to the number NaN
inlineCompare(a, b) == NaN

\* comparefn(a, b) for the comparators the code hands to sort
Call(comparefn, a, b) ==
    CASE comparefn = "filesCompare" -> filesCompare(a, b)
      [] comparefn = "inlineCompare" -> inlineCompare(a, b)
      [] comparefn = "filesCompareMaps" -> filesCompareMaps(a, b)
      [] comparefn = "foldersCompare" -> foldersCompare(a, b)

\* SortCompare(x, y): the number comparefn(x, y), NaN read as +0
SortCompare(comparefn, x, y) ==
    LET v == Call(comparefn, x, y) IN IF IsNaN(v) THEN 0 ELSE v.val

\* Insertion sort: item goes left past every element that compares greater
\* than it; position j + 1 is free
RECURSIVE Sink(_, _, _, _)
Sink(arr, j, item, comparefn) ==
    IF j >= 1 /\ SortCompare(comparefn, arr[j], item) > 0
    THEN Sink([arr EXCEPT ![j + 1] = arr[j]], j - 1, item, comparefn)
    ELSE [arr EXCEPT ![j + 1] = item]

RECURSIVE InsertionSort(_, _, _)
InsertionSort(arr, i, comparefn) ==
    IF i > Len(arr) THEN arr
    ELSE InsertionSort(Sink(arr, i - 1, arr[i], comparefn), i + 1, comparefn)

\* The length of the run the array starts with, counted from element idx
\* on: it goes on while each element compares below its predecessor in a
\* descending run, not below it in an ascending one
RECURSIVE RunLength(_, _, _, _)
RunLength(arr, idx, descending, comparefn) ==
    IF idx > Len(arr) THEN Len(arr)
    ELSE LET order == SortCompare(comparefn, arr[idx], arr[idx - 1])
         IN IF (descending /\ order >= 0) \/ (~descending /\ order < 0)
            THEN idx - 1
            ELSE RunLength(arr, idx + 1, descending, comparefn)

\* The place of pivot among the sorted elements left..right-1
RECURSIVE BinarySearch(_, _, _, _, _)
BinarySearch(arr, pivot, left, right, comparefn) ==
    IF left >= right THEN left
    ELSE LET mid == left + ((right - left) \div 2)
         IN IF SortCompare(comparefn, pivot, arr[mid]) < 0
            THEN BinarySearch(arr, pivot, left, mid, comparefn)
            ELSE BinarySearch(arr, pivot, mid + 1, right, comparefn)

\* Binary insertion sort of the elements from start on into the sorted
\* elements before them
RECURSIVE BinaryInsertionSort(_, _, _)
BinaryInsertionSort(arr, start, comparefn) ==
    IF start > Len(arr) THEN arr
    ELSE LET at == BinarySearch(arr, arr[start], 1, start, comparefn)
             placed == [k \in 1..Len(arr) |->
                           IF k < at \/ k > start THEN arr[k]
                           ELSE IF k = at THEN arr[start]
                           ELSE arr[k - 1]]
         IN BinaryInsertionSort(placed, start + 1, comparefn)

\* The run at the start of the array is made ascending, the rest inserted
RunThenInsert(arr, comparefn) ==
    LET descending == SortCompare(comparefn, arr[2], arr[1]) < 0
        run == RunLength(arr, 3, descending, comparefn)
        reversed == [k \in 1..Len(arr) |->
                        IF k <= run THEN arr[run + 1 - k] ELSE arr[k]]
        made == IF descending THEN reversed ELSE arr
    IN BinaryInsertionSort(made, run + 1, comparefn)

\* Two sorted runs merged: the element of the right run is taken when it
\* compares below that of the left run
RECURSIVE Merge(_, _, _)
Merge(left, right, comparefn) ==
    IF right = <<>> THEN left
    ELSE IF left = <<>> THEN right
    ELSE IF SortCompare(comparefn, right[1], left[1]) < 0
    THEN <<right[1]>> \o Merge(left, Tail(right), comparefn)
    ELSE <<left[1]>> \o Merge(Tail(left), right, comparefn)

\* One pass of the merge sort: the runs of the given width are merged two
\* by two, from element from on
RECURSIVE MergePass(_, _, _, _)
MergePass(arr, width, from, comparefn) ==
    IF from > Len(arr) THEN <<>>
    ELSE LET n == Len(arr)
             leftEnd == IF from + width - 1 < n THEN from + width - 1 ELSE n
             rightEnd == IF leftEnd + width < n THEN leftEnd + width ELSE n
         IN Merge(SubSeq(arr, from, leftEnd), SubSeq(arr, leftEnd + 1, rightEnd),
                  comparefn)
              \o MergePass(arr, width, from + 2 * width, comparefn)

RECURSIVE MergeSort(_, _, _)
MergeSort(arr, width, comparefn) ==
    IF width >= Len(arr) THEN arr
    ELSE MergeSort(MergePass(arr, width, 1, comparefn), 2 * width, comparefn)

\* arr.sort(comparefn) in the engine the page runs in
ArraySort(arr, comparefn) ==
    IF Len(arr) < 2 THEN arr
    ELSE CASE engine = "insertion" -> InsertionSort(arr, 2, comparefn)
           [] engine = "binaryInsertion" -> RunThenInsert(arr, comparefn)
           [] engine = "merge" -> MergeSort(arr, 1, comparefn)

-----------------------------------------------------------------------------
(* sortTreeByDate *)

\* node.subfolders = {}; foldersWithDates.forEach(f => node.subfolders[f.name] = f.node)
RECURSIVE Rebuild(_, _, _)
Rebuild(sorted, i, obj) ==
    IF i > Len(sorted) THEN obj
    ELSE Rebuild(sorted, i + 1, SetProp(obj, sorted[i].name, sorted[i].node))

\* Promise.all(promises): values[i] is what promise i resolves to, order is
\* the order in which the promises settle.  Each value is stored at the
\* index of its promise.
RECURSIVE Settle(_, _, _, _)
Settle(result, values, order, k) ==
    IF k > Len(order) THEN result
    ELSE Settle([result EXCEPT ![order[k]] = values[order[k]]],
                values, order, k + 1)

\* A Promise.all that lists the values as they arrive.
PromiseAllByCompletion(values, order) ==
    [k \in 1..Len(order) |-> values[order[k]]]

PromiseAll(values, order) ==
    Settle([i \in 1..Len(values) |-> Undefined], values, order, 1)

Identity(n) == [i \in 1..n |-> i]

\* The orders in which n lookups issued together can complete
CompletionOrders(n, mode) ==
    CASE mode = "inOrder" -> {Identity(n)}
      [] mode = "outOfOrder" ->
            IF n < 2 THEN {Identity(n)} ELSE Perms(n) \ {Identity(n)}
      [] mode = "any" -> Perms(n)

\* The values sortTreeByDate(node) can resolve to; TypeError when the
\* returned promise rejects.  maps tells which copy of the function runs,
\* mode how the lookups issued together complete.
RECURSIVE SortOutcomes(_, _, _)
SortOutcomes(node, maps, mode) ==
    IF "files" \notin DOMAIN node THEN {TypeError}
    ELSE
    LET lookups ==
            [i \in 1..Len(node.files) |->
                [file |-> node.files[i],
                 date |-> getGpxFirstDate(node.files[i])]]
        fileOrders ==
            {ArraySort(PromiseAll(lookups, o),
                       IF maps THEN "filesCompareMaps" ELSE "filesCompare") :
               o \in CompletionOrders(Len(node.files), mode)}
        folderEntries == node.subfolders
        n == Len(folderEntries)
        childOutcomes ==
            [i \in 1..n |-> SortOutcomes(folderEntries[i].node, maps, mode)]
        children ==
            {c \in [1..n -> UNION {childOutcomes[i] : i \in 1..n}] :
                \A i \in 1..n : c[i] \in childOutcomes[i]}
        folderLookups(c) ==
            [i \in 1..n |->
                LET track == findMostRecentTrack(c[i])
                IN [name |-> folderEntries[i].key,
                    node |-> c[i],
                    date |-> IF track # Null THEN getGpxFirstDate(track)
                                             ELSE Epoch]]
        folderOrders(c) ==
            {ArraySort(PromiseAll(folderLookups(c), o), "foldersCompare") :
               o \in CompletionOrders(n, mode)}
        result(fo, so) ==
            [name |-> node.name,
             files |-> [i \in 1..Len(fo) |-> fo[i].file],
             subfolders |-> Rebuild(so, 1, EmptyObject)]
    IN UNION {
         IF \E i \in 1..n : IsError(c[i]) THEN {TypeError}
         ELSE {result(fo, so) : fo \in fileOrders, so \in folderOrders(c)} :
         c \in children}

\* sortTreeByDate of fetch_tree.js
sortTreeByDate(node) == SortOutcomes(node, FALSE, "any")

\* sortTreeByDate of maps/create_ui.js
sortTreeByDateMaps(node) == SortOutcomes(node, TRUE, "any")

-----------------------------------------------------------------------------
(* The track list.  checkboxes holds the input elements under              *)
(* #trackCheckboxes in document order; within is the chain of folder names *)
(* of the sublists an element lies in.  Only a track checkbox has a value  *)
(* attribute.                                                              *)

\* createCheckbox(filename)
createCheckbox(filename, within) ==
    [kind |-> "track", value |-> filename,
     label |-> <<" ">> \o LastSegment(filename),
     checked |-> FALSE, within |-> within]

\* The folder checkbox and the label of a folder header
FolderCheckbox(folderName, within) ==
    [kind |-> "folder", value |-> <<>>, label |-> folderName,
     checked |-> FALSE, within |-> within]

\* createUIFromTree(tree, container): the inputs appended to the container
RECURSIVE createUIFromTree(_, _)

RECURSIVE FoldersUI(_, _, _)
FoldersUI(subs, i, within) ==
    IF i > Len(subs) THEN <<>>
    ELSE <<FolderCheckbox(subs[i].key, within)>>
           \o createUIFromTree(subs[i].node, Append(within, subs[i].key))
           \o FoldersUI(subs, i + 1, within)

createUIFromTree(node, within) ==
    (IF "files" \in DOMAIN node
     THEN [i \in 1..Len(node.files) |-> createCheckbox(node.files[i], within)]
     ELSE <<>>)
    \o (IF "subfolders" \in DOMAIN node
        THEN FoldersUI(node.subfolders, 1, within)
        ELSE <<>>)

\* [lat, lon] of two numbers, in millionths of a degree
LatLng(lat, lon) == [lat |-> lat.val * 1000000, lon |-> lon.val * 1000000]

\* An element xml.querySelectorAll('trkpt') returns
IsTrkpt(el) == el.tag \in {"trkpt", "trkptLonFirst"}

\* `${mostRecentTrack.path}`: mostRecentTrack is a string, a string has no
\* property path, and undefined is written "undefined".
StrUndefined == <<"u", "n", "d", "e", "f", "i", "n", "e", "d">>

PathOf(mostRecentTrack) == StrUndefined

\* querySelector('input[value="v"]'): the index of the first match, 0 if none
QuerySelector(cbs, v) ==
    LET hits == {i \in 1..Len(cbs) : cbs[i].kind = "track" /\ cbs[i].value = v}
    IN IF hits = {} THEN 0 ELSE CHOOSE i \in hits : \A j \in hits : i <= j

\* Is sequence a a proper or improper prefix of sequence b?
IsPrefix(a, b) == Len(a) <= Len(b) /\ \A i \in 1..Len(a) : a[i] = b[i]

\* checkbox.checked = true; checkbox.dispatchEvent(new Event('change')) on
\* track checkbox i, outside a bulk update: every folder checkbox whose
\* sublist holds the checkbox follows.
CheckTrack(cbs, i) ==
    [k \in 1..Len(cbs) |->
        IF k = i
           \/ (cbs[k].kind = "folder"
               /\ IsPrefix(Append(cbs[k].within, cbs[k].label), cbs[i].within))
        THEN [cbs[k] EXCEPT !.checked = TRUE]
        ELSE cbs[k]]

-----------------------------------------------------------------------------
(* Page initialisation: fetchGpxTree().then(async tree => ...) of          *)
(* mainscript.js and of maps/mainscript.js.  The page is loaded without a  *)
(* query string.                                                           *)

\* The longest listing drawn for a page
MaxPageListing == 3

PathRootFile2 == GPX_DIRECTORY \o S \o File2

PathRootFile3 == GPX_DIRECTORY \o S \o File3

PagePaths ==
    {PathRootFile, PathRootFile2, PathRootFile3, PathInA, PathInDigits}

\* The listings of a page: no path is listed twice
PageListings(pg) ==
    LET paths == IF pg = "maps"
                 THEN {WEBPAGE_ROOT_DIRECTORY \o S \o pth : pth \in PagePaths}
                 ELSE PagePaths
    IN {l \in SeqsUpTo(paths, MaxPageListing) :
          \A i, j \in 1..Len(l) : l[i] = l[j] => i = j}

PageResponses(pg) ==
    {[kind |-> k, paths |-> <<>>] : k \in {"fetchThrows", "jsonThrows", "noTree"}}
      \cup {[kind |-> "tree", paths |-> l] : l \in PageListings(pg)}

PageContents ==
    { FetchRejects,
      Content(<<Trkpt("0", "1")>>),
      Content(<<Time("1970-01-01T00:00:10Z"), Trkpt("0", "0"), Trkpt("0", "1")>>),
      Content(<<Time("1970-01-01T01:30:10Z"), Trkpt("1", "1")>>),
      Content(<<Time("yesterday"), Trkpt("0", "0")>>) }

Init ==
    /\ page \in {"root", "maps"}
    /\ response \in PageResponses(page)
    /\ remote \in [Range(response.paths) -> PageContents]
    /\ tree = Undefined
    /\ treePc = "start"
    /\ pagePc = "loading"
    /\ BlankPage
    /\ IdleGpx
    /\ IdleProbe
    /\ IdleSteps
    /\ IdleLayers
    /\ engine \in Engines
    /\ IdleAddress
    /\ IdleFormat
    /\ IdleBoat
    /\ IdleEvent
    /\ IdleColor
    /\ IdleUi

\* const sortedTree = await sortTreeByDate(tree).  sortTreeByDate sorts the
\* node it is given in place and returns it: tree and sortedTree are the
\* same object afterwards.  A call that throws does so before it has
\* written to the node.
SortTreeByDate ==
    /\ treePc = "resolved"
    /\ pagePc = "loading"
    /\ \E out \in (IF page = "maps" THEN sortTreeByDateMaps(tree)
                                    ELSE sortTreeByDate(tree)) :
         IF IsError(out)
         THEN pagePc' = "rejected" /\ sortedTree' = sortedTree /\ tree' = tree
         ELSE pagePc' = "sorted" /\ sortedTree' = out /\ tree' = out
    /\ UNCHANGED <<response, treePc, gpxVars, engineVars, addressVars, formatVars, boatVars, eventVars, colorVars, uiVars, stepVars, layerVars, probeVars,
                   page, remote, checkboxes, boatMarker,
                   fallbackView, mapView, loadedTracks>>

\* trackCheckboxesDiv.innerHTML = ''; await createUIFromTree(sortedTree, ...)
CreateUIFromTree ==
    /\ pagePc = "sorted"
    /\ checkboxes' = createUIFromTree(sortedTree, <<>>)
    /\ pagePc' = "listed"
    /\ UNCHANGED <<treeVars, gpxVars, engineVars, addressVars, formatVars, boatVars, eventVars, colorVars, uiVars, stepVars, layerVars, probeVars,
                   page, remote, sortedTree, boatMarker,
                   fallbackView, mapView, loadedTracks>>

\* await addBoatMarker(sortedTree).  L.marker throws on a NaN coordinate.
AddBoatMarker ==
    /\ pagePc = "listed"
    /\ LET mostRecent == findMostRecentTrack(sortedTree)
           res == fetchGpxText(mostRecent)
           trkpts == SelectSeq(res.text, IsTrkpt)
           lastPt == trkpts[Len(trkpts)]
           lat == ParseFloat(lastPt.lat)
           lon == ParseFloat(lastPt.lon)
       IN IF mostRecent = Null
          THEN pagePc' = "marked" /\ UNCHANGED <<boatMarker, fallbackView>>
          ELSE IF ~res.ok
          THEN pagePc' = "rejected" /\ UNCHANGED <<boatMarker, fallbackView>>
          ELSE IF Len(trkpts) = 0
          THEN pagePc' = "marked" /\ UNCHANGED <<boatMarker, fallbackView>>
          ELSE IF IsNaN(lat) \/ IsNaN(lon)
          THEN pagePc' = "rejected" /\ UNCHANGED <<boatMarker, fallbackView>>
          ELSE /\ boatMarker' = LatLng(lat, lon)
               /\ fallbackView' = LatLng(lat, lon)
               /\ pagePc' = "marked"
    /\ UNCHANGED <<treeVars, gpxVars, engineVars, addressVars, formatVars, boatVars, eventVars, colorVars, uiVars, stepVars, layerVars, probeVars,
                   page, remote, sortedTree, checkboxes,
                   mapView, loadedTracks>>

\* mainscript.js: resetViewToFallback(), then the most recent track is
\* looked up among the checkboxes and checked when it is found.
SelectMostRecent ==
    /\ page = "root"
    /\ pagePc = "marked"
    /\ mapView' = IF loadedTracks = {} THEN fallbackView ELSE mapView
    /\ LET mostRecentTrack == findMostRecentTrack(sortedTree)
           i == QuerySelector(checkboxes, PathOf(mostRecentTrack))
       IN IF mostRecentTrack # Null /\ i # 0
          THEN /\ checkboxes' = CheckTrack(checkboxes, i)
               /\ loadedTracks' = loadedTracks \cup {checkboxes[i].value}
          ELSE UNCHANGED <<checkboxes, loadedTracks>>
    /\ pagePc' = "done"
    /\ UNCHANGED <<treeVars, gpxVars, engineVars, addressVars, formatVars, boatVars, eventVars, colorVars, uiVars, stepVars, layerVars, probeVars,
                   page, remote, sortedTree, boatMarker,
                   fallbackView>>

\* maps/mainscript.js: the page is opened without a query, so neither
\* ?tracks= nor ?folders= is given and nothing is selected.  ReadTracks is
\* this step of a page opened with a query.
SelectFromUrl ==
    /\ page = "maps"
    /\ pagePc = "marked"
    /\ search = <<>>
    /\ pagePc' = "done"
    /\ UNCHANGED <<treeVars, gpxVars, engineVars, addressVars, formatVars, boatVars, eventVars, colorVars, uiVars, stepVars, layerVars, probeVars,
                   page, remote, sortedTree, checkboxes,
                   boatMarker, fallbackView, mapView, loadedTracks>>

Next ==
    \/ FetchGpxTree
    \/ SortTreeByDate
    \/ CreateUIFromTree
    \/ AddBoatMarker
    \/ SelectMostRecent
    \/ SelectFromUrl

Spec == Init /\ [][Next]_vars

-----------------------------------------------------------------------------
(* What the sort did *)

\* The pairs <<folder path, files>> of a tree, one for each of its folders
RECURSIVE FolderListings(_, _)
FolderListings(node, prefix) ==
    {<<prefix, node.files>>}
      \cup UNION {FolderListings(node.subfolders[i].node,
                                 prefix \o node.subfolders[i].key \o S) :
                    i \in 1..Len(node.subfolders)}

Count(seq, x) == Cardinality({i \in 1..Len(seq) : seq[i] = x})

IsPermutationOf(a, b) ==
    /\ Len(a) = Len(b)
    /\ \A x \in Range(a) \cup Range(b) : Count(a, x) = Count(b, x)

\* Whenever the first timestamp of one file is before that of another, the
\* one is listed before the other.
AscendingByFirstTimestamp(files) ==
    \A i, j \in 1..Len(files) :
        NumLt(getGpxFirstDate(files[i]), getGpxFirstDate(files[j])) => i < j

SortResolved == sortedTree # Undefined

\* C10: after sortTreeByDate has resolved, the files of every folder are a
\* permutation of the files the folder held before the call, and a file whose
\* first timestamp is earlier than that of another file of the folder is
\* listed before it.
C10_FilesAscendingPermutation ==
    SortResolved =>
        \A fs \in FolderListings(sortedTree, <<>>) :
            \E ft \in FolderListings(FetchedTree, <<>>) :
                /\ ft[1] = fs[1]
                /\ IsPermutationOf(fs[2], ft[2])
                /\ AscendingByFirstTimestamp(fs[2])

\* C4: when the listing is missing or its request fails, the promise of the
\* initialisation callback is never rejected.
C4_FailedListingNeverRejects ==
    response.kind \in {"fetchThrows", "jsonThrows", "noTree"}
        => pagePc # "rejected"

-----------------------------------------------------------------------------
(* The order of the subfolders *)

\* The nodes of a tree: the node itself and the nodes below it
RECURSIVE AllNodes(_)
AllNodes(node) ==
    {node} \cup UNION {AllNodes(node.subfolders[i].node) :
                         i \in 1..Len(node.subfolders)}

\* The first timestamp of the most recent track below a node, the epoch when
\* findMostRecentTrack finds none: the key sortTreeByDate orders folders by.
FolderDate(node) ==
    LET track == findMostRecentTrack(node)
    IN IF track # Null THEN getGpxFirstDate(track) ELSE Epoch

\* No subfolder is visited before one whose most recent track is later.
NonIncreasingFolderDates(subs) ==
    \A i, j \in 1..Len(subs) :
        i < j => ~NumLt(FolderDate(subs[i].node), FolderDate(subs[j].node))

FolderPaths(node) == {f[1] : f \in FolderListings(node, <<>>)}

\* C11: after sortTreeByDate has resolved, the subfolders of every folder
\* are enumerated in non-increasing order of the first timestamp of their
\* most recent track, whatever the folder names are, and the tree has the
\* folders it had before.
C11_SubfoldersByDescendingDate ==
    SortResolved =>
        /\ \A node \in AllNodes(sortedTree) :
               NonIncreasingFolderDates(node.subfolders)
        /\ FolderPaths(sortedTree) = FolderPaths(FetchedTree)

-----------------------------------------------------------------------------
(* Folder statistics *)

\* getGpxInfo(gpxPath): ok = FALSE when the returned promise rejects
getGpxInfo(gpxPath) ==
    LET res == fetchGpxText(gpxPath)
    IN IF res.ok THEN [ok |-> TRUE, info |-> parseGpxInfo(res.text)]
       ELSE [ok |-> FALSE, info |-> Undefined]

NoStats == [totalDuration |-> Num(0), totalDistance |-> Num(0)]

AddStats(totals, duration, distance) ==
    [totalDuration |-> NumAdd(totals.totalDuration, duration),
     totalDistance |-> NumAdd(totals.totalDistance, distance)]

\* A loop over the files that a failing file ends.
RECURSIVE SumFilesUntilFailure(_, _, _)
SumFilesUntilFailure(files, i, totals) ==
    IF i > Len(files) THEN totals
    ELSE LET res == getGpxInfo(files[i])
         IN IF res.ok
            THEN SumFilesUntilFailure(files, i + 1,
                     AddStats(totals, res.info.durationSeconds,
                              res.info.distanceMeters))
            ELSE totals

\* for (const file of node.files) { try { ... } catch (e) { } }
RECURSIVE SumFiles(_, _, _)
SumFiles(files, i, totals) ==
    IF i > Len(files) THEN totals
    ELSE LET res == getGpxInfo(files[i])
         IN SumFiles(files, i + 1,
                IF res.ok
                THEN AddStats(totals, res.info.durationSeconds,
                              res.info.distanceMeters)
                ELSE totals)

RECURSIVE getFolderStats(_)

\* for (const sub of Object.values(node.subfolders)) { ... }
RECURSIVE SumSubfolders(_, _, _)
SumSubfolders(subs, i, totals) ==
    IF i > Len(subs) THEN totals
    ELSE LET stats == getFolderStats(subs[i].node)
         IN SumSubfolders(subs, i + 1,
                AddStats(totals, stats.totalDuration, stats.totalDistance))

getFolderStats(node) ==
    LET own == IF "files" \in DOMAIN node
               THEN SumFiles(node.files, 1, NoStats)
               ELSE NoStats
    IN IF "subfolders" \in DOMAIN node
       THEN SumSubfolders(node.subfolders, 1, own)
       ELSE own

-----------------------------------------------------------------------------
(* The functions over a tree, each applied to the tree a listing gives *)

\* The longest listing drawn
MaxSortListing == 3

SortPaths == {PathRootFile, PathRootFile2, PathInAB, PathInDigits}

\* The files of the one larger folder
MaxFolderFiles == 5

DigitChar(d) == CHOOSE c \in Digits : DigitVal(c) = d

\* The decimal digits of a number below 100
NumStr(k) ==
    IF k < 10 THEN <<DigitChar(k)>> ELSE <<DigitChar(k \div 10), DigitChar(k % 10)>>

NumberedFile(k) == GPX_DIRECTORY \o S \o NumStr(k) \o DotGpx

\* gpx/1.gpx ... gpx/5.gpx
FolderListing == [k \in 1..MaxFolderFiles |-> NumberedFile(k)]

\* The listings of up to MaxSortListing different paths, and the listing of
\* the larger folder
SortListings(pg) ==
    LET Raw(pth) == IF pg = "maps" THEN WEBPAGE_ROOT_DIRECTORY \o S \o pth ELSE pth
    IN {l \in SeqsUpTo({Raw(pth) : pth \in SortPaths}, MaxSortListing) :
          \A i, j \in 1..Len(l) : l[i] = l[j] => i = j}
         \cup {[k \in 1..MaxFolderFiles |-> Raw(FolderListing[k])]}

TrackContents ==
    { FetchRejects,
      Content(<<Trkpt("0", "1")>>),
      Content(<<Time("1970-01-01T00:00:10Z"), Trkpt("0", "0"), Trkpt("0", "1"),
                Time("1970-01-01T01:30:10Z")>>),
      Content(<<Time("1970-01-01T01:30:10Z"), Trkpt("1", "1"), Trkpt("0", "0"),
                Time("1970-01-01T01:30:10Z")>>),
      Content(<<Time("yesterday"), Trkpt("0", "0")>>) }

\* The files of the larger folder: every one has a <time> element, and the
\* text of one of them is no date
DatedContents ==
    {c \in TrackContents : c.ok /\ Len(SelectSeq(c.text, MatchesTime)) > 0}

InitSort ==
    /\ page \in {"root", "maps"}
    /\ response \in {[kind |-> "tree", paths |-> l] : l \in SortListings(page)}
    /\ remote \in [Range(response.paths) ->
                      IF Len(response.paths) > MaxSortListing THEN DatedContents
                                                             ELSE TrackContents]
    /\ tree = IF page = "maps" THEN fetchGpxTreeMaps(response)
                               ELSE fetchGpxTree(response)
    /\ treePc = "resolved"
    /\ pagePc = "loading"
    /\ BlankPage
    /\ IdleGpx
    /\ IdleProbe
    /\ IdleSteps
    /\ IdleLayers
    /\ engine \in Engines
    /\ IdleAddress
    /\ IdleFormat
    /\ IdleBoat
    /\ IdleEvent
    /\ IdleColor
    /\ IdleUi

\* const sortedTree = await sortTreeByDate(tree): the node is sorted in
\* place and returned, so tree is the sorted node as well; completion tells
\* whether the lookups issued together completed in the order they were
\* issued.
SortTree ==
    /\ pagePc = "loading"
    /\ \E mode \in {"inOrder", "outOfOrder"} :
         \E out \in SortOutcomes(tree, page = "maps", mode) :
            /\ completion' = mode
            /\ IF IsError(out)
               THEN pagePc' = "rejected" /\ sortedTree' = sortedTree
                    /\ tree' = tree
               ELSE pagePc' = "sorted" /\ sortedTree' = out /\ tree' = out
    /\ UNCHANGED <<response, treePc, gpxVars, engineVars, addressVars, formatVars, boatVars, eventVars, colorVars, uiVars, stepVars, layerVars,
                   page, remote, checkboxes, boatMarker,
                   fallbackView, mapView, loadedTracks, resorted, recentTrack,
                   folderStats>>

\* sortTreeByDate(sortedTree): the node is sorted in place once more;
\* resorted keeps the node as it was before the call and as it is after
SortTreeAgain ==
    /\ pagePc = "sorted"
    /\ \E out \in SortOutcomes(sortedTree, page = "maps", "any") :
         IF IsError(out)
         THEN /\ pagePc' = "rejected"
              /\ UNCHANGED <<resorted, sortedTree, tree>>
         ELSE /\ pagePc' = "resorted"
              /\ resorted' = [before |-> sortedTree, after |-> out]
              /\ sortedTree' = out
              /\ tree' = out
    /\ UNCHANGED <<response, treePc, gpxVars, engineVars, addressVars, formatVars, boatVars, eventVars, colorVars, uiVars, stepVars, layerVars,
                   page, remote, checkboxes,
                   boatMarker, fallbackView, mapView, loadedTracks,
                   completion, recentTrack, folderStats>>

\* findMostRecentTrack(tree)
FindMostRecentTrack ==
    /\ pagePc = "loading"
    /\ recentTrack' = findMostRecentTrack(tree)
    /\ pagePc' = "found"
    /\ UNCHANGED <<treeVars, gpxVars, engineVars, addressVars, formatVars, boatVars, eventVars, colorVars, uiVars, stepVars, layerVars,
                   page, remote, sortedTree, checkboxes,
                   boatMarker, fallbackView, mapView, loadedTracks,
                   completion, resorted, folderStats>>

\* getFolderStats(tree, getGpxInfo)
GetFolderStats ==
    /\ pagePc = "loading"
    /\ folderStats' = getFolderStats(tree)
    /\ pagePc' = "summed"
    /\ UNCHANGED <<treeVars, gpxVars, engineVars, addressVars, formatVars, boatVars, eventVars, colorVars, uiVars, stepVars, layerVars,
                   page, remote, sortedTree, checkboxes,
                   boatMarker, fallbackView, mapView, loadedTracks,
                   completion, resorted, recentTrack>>

NextSort ==
    \/ SortTree
    \/ SortTreeAgain
    \/ FindMostRecentTrack
    \/ GetFolderStats

SpecSort == InitSort /\ [][NextSort]_vars

-----------------------------------------------------------------------------
(* What findMostRecentTrack found *)

\* The files below a node in traversal order: the files of the node, then
\* the files below each subfolder in enumeration order.
RECURSIVE Traversal(_)

RECURSIVE TraversalOfSubfolders(_, _)
TraversalOfSubfolders(subs, i) ==
    IF i > Len(subs) THEN <<>>
    ELSE Traversal(subs[i].node) \o TraversalOfSubfolders(subs, i + 1)

Traversal(node) == node.files \o TraversalOfSubfolders(node.subfolders, 1)

\* file is in the traversal, no file has a later first timestamp, and no
\* file with the same first timestamp is met before it.
IsFirstOfTheMostRecent(file, files) ==
    /\ \E i \in 1..Len(files) : files[i] = file
    /\ \A i \in 1..Len(files) :
           ~NumGt(getGpxFirstDate(files[i]), getGpxFirstDate(file))
    /\ \A i, j \in 1..Len(files) :
           (files[j] = file /\ i < j)
               => getGpxFirstDate(files[i]) # getGpxFirstDate(file)

SomeFileAfterEpoch(files) ==
    \E i \in 1..Len(files) : NumGt(getGpxFirstDate(files[i]), Epoch)

\* C12 as stated: findMostRecentTrack returns a file of the tree that has the
\* latest first timestamp, the first such file in traversal order, for
\* every tree that holds a file.
C12_ReturnsFirstOfTheMostRecent ==
    (pagePc = "found" /\ Len(Traversal(tree)) > 0)
        => IsFirstOfTheMostRecent(recentTrack, Traversal(tree))

\* C12, amended: when some file of the tree has a first timestamp after the
\* epoch, findMostRecentTrack returns the first file in traversal order among
\* those with the latest first timestamp; otherwise it returns null.
C12_FirstOfTheMostRecentOrNull ==
    pagePc = "found"
        => IF SomeFileAfterEpoch(Traversal(tree))
           THEN IsFirstOfTheMostRecent(recentTrack, Traversal(tree))
           ELSE recentTrack = Null

\* Two files share the latest first timestamp and one of them was returned.
C12_Witness ==
    /\ pagePc = "found"
    /\ recentTrack # Null
    /\ \E i, j \in 1..Len(Traversal(tree)) :
          /\ i < j
          /\ Traversal(tree)[i] = recentTrack
          /\ getGpxFirstDate(Traversal(tree)[j]) = getGpxFirstDate(recentTrack)

\* C28: findMostRecentTrack returns null exactly when no file below the
\* node has a first timestamp after the epoch, and a file it returns has a
\* first timestamp after the epoch.
C28_NullIffNoFileAfterEpoch ==
    pagePc = "found"
        => /\ recentTrack = Null <=> ~SomeFileAfterEpoch(Traversal(tree))
           /\ recentTrack # Null
                 => NumGt(getGpxFirstDate(recentTrack), Epoch)

\* A tree with files, one that fails to fetch and one without a <time> that
\* is a date, gave null.
C28_Witness ==
    /\ pagePc = "found"
    /\ recentTrack = Null
    /\ \E i, j \in 1..Len(Traversal(tree)) :
          /\ ~fetchGpxText(Traversal(tree)[i]).ok
          /\ fetchGpxText(Traversal(tree)[j]).ok
          /\ getGpxFirstDate(Traversal(tree)[j]).nan

-----------------------------------------------------------------------------
(* Sorting a sorted tree *)

\* C13: sortTreeByDate applied to a tree that sortTreeByDate produced, with
\* the same remote files, gives the same tree: the same files sequence in
\* every folder and the same subfolders in the same enumeration order.
C13_SortingTwiceIsSortingOnce ==
    pagePc = "resorted" => resorted.after = resorted.before

-----------------------------------------------------------------------------
(* Files whose first timestamp cannot be read *)

\* The lookup of the first timestamp falls back to the epoch: the fetch
\* rejects or the text has no <time> element.
FallsBackToEpoch(file) ==
    LET res == fetchGpxText(file)
    IN ~res.ok \/ Len(SelectSeq(res.text, MatchesTime)) = 0

\* C14: the sort resolves, and in every folder a file whose first timestamp
\* cannot be read stands before every file whose first timestamp is after
\* the epoch.
C14_UnreadableFileSortsAsOldest ==
    pagePc = "sorted" =>
        /\ SortResolved
        /\ \A node \in AllNodes(sortedTree) :
              \A i, j \in 1..Len(node.files) :
                  (FallsBackToEpoch(node.files[j])
                     /\ NumGt(getGpxFirstDate(node.files[i]), Epoch))
                      => j < i

-----------------------------------------------------------------------------
(* Folder statistics of a tree *)

\* What one file adds to the totals: its duration and distance, or nothing
\* when getGpxInfo rejects.
Contribution(file) ==
    LET res == getGpxInfo(file)
    IN IF res.ok
       THEN [duration |-> res.info.durationSeconds,
             distance |-> res.info.distanceMeters]
       ELSE [duration |-> Num(0), distance |-> Num(0)]

RECURSIVE SumOfDurations(_)
SumOfDurations(files) ==
    IF Len(files) = 0 THEN Num(0)
    ELSE NumAdd(Contribution(Head(files)).duration, SumOfDurations(Tail(files)))

RECURSIVE SumOfDistances(_)
SumOfDistances(files) ==
    IF Len(files) = 0 THEN Num(0)
    ELSE NumAdd(Contribution(Head(files)).distance, SumOfDistances(Tail(files)))

\* C15: getFolderStats resolves, and its totals are the sums of the
\* durations and of the distances of all files below the node, a file whose
\* getGpxInfo rejects adding 0 to both.
C15_TotalsSumEveryReadableFile ==
    pagePc = "summed" =>
        /\ folderStats # Undefined
        /\ folderStats.totalDuration = SumOfDurations(Traversal(tree))
        /\ folderStats.totalDistance = SumOfDistances(Traversal(tree))

\* In one folder a file that cannot be fetched stands before a file with a
\* duration and a distance, and the totals hold both.
C15_Witness ==
    /\ pagePc = "summed"
    /\ \E i, j \in 1..Len(tree.files) :
          /\ i < j
          /\ ~getGpxInfo(tree.files[i]).ok
          /\ getGpxInfo(tree.files[j]).ok
          /\ NumGt(Contribution(tree.files[j]).duration, Num(0))
          /\ NumGt(Contribution(tree.files[j]).distance, Num(0))
    /\ NumGt(folderStats.totalDuration, Num(0))
    /\ NumGt(folderStats.totalDistance, Num(0))

-----------------------------------------------------------------------------
(* The order in which the lookups of a folder complete *)

\* C16: a sort whose lookups completed out of the order of issue produces a
\* tree that the sort produces when they complete in the order of issue.
C16_CompletionOrderDoesNotMatter ==
    (pagePc = "sorted" /\ completion = "outOfOrder")
        => sortedTree \in SortOutcomes(FetchedTree, page = "maps", "inOrder")

\* The lookups of two files of one folder completed out of order and gave
\* the same date, which is a date.
C16_Witness ==
    /\ pagePc = "sorted"
    /\ completion = "outOfOrder"
    /\ \E i, j \in 1..Len(FetchedTree.files) :
          /\ i < j
          /\ getGpxFirstDate(FetchedTree.files[i])
                = getGpxFirstDate(FetchedTree.files[j])
          /\ ~IsNaN(getGpxFirstDate(FetchedTree.files[i]))
    /\ sortedTree.files = FetchedTree.files
    /\ tree = sortedTree

-----------------------------------------------------------------------------
(* sortTreeByDate step by step.  A folder is named by the keys that lead   *)
(* to it from the root.  The phase of a folder is where the call of        *)
(* sortTreeByDate on it stands: "idle" before the call, "lookups" while    *)
(* the dates of its files are awaited, "children" while the sorts of its   *)
(* subfolders are awaited, "keys" while the dates of its subfolders are    *)
(* awaited, "done" when the call has returned.  The tree of the inline     *)
(* script is held in the shape of the module's tree: files for _files and  *)
(* subfolders for the other keys.                                          *)

RECURSIVE FolderIds(_)
FolderIds(node) ==
    {<<>>} \cup
    UNION {{<<node.subfolders[i].key>> \o d : d \in FolderIds(node.subfolders[i].node)} :
             i \in 1..Len(node.subfolders)}

RECURSIVE NodeAt(_, _)
NodeAt(node, d) ==
    IF d = <<>> THEN node
    ELSE LET i == CHOOSE i \in 1..Len(node.subfolders) :
                      node.subfolders[i].key = Head(d)
         IN NodeAt(node.subfolders[i].node, Tail(d))

\* The tree after the node at d was changed in place
RECURSIVE ReplaceAt(_, _, _)
ReplaceAt(node, d, new) ==
    IF d = <<>> THEN new
    ELSE [node EXCEPT !.subfolders =
            [i \in 1..Len(node.subfolders) |->
                IF node.subfolders[i].key = Head(d)
                THEN [key |-> node.subfolders[i].key,
                      node |-> ReplaceAt(node.subfolders[i].node, Tail(d), new)]
                ELSE node.subfolders[i]]]

\* Object.entries(node.subfolders), as the folders the entries lead to
Children(d) ==
    LET subs == NodeAt(work, d).subfolders
    IN [i \in 1..Len(subs) |-> Append(d, subs[i].key)]

\* filesWithDates.sort(...); node.files = filesWithDates.map(f => f.file)
FilesSorted(node, comparefn) ==
    LET lookups == [i \in 1..Len(node.files) |->
                       [file |-> node.files[i],
                        date |-> getGpxFirstDate(node.files[i])]]
    IN {[node EXCEPT !.files = [i \in 1..Len(fo) |-> fo[i].file]] :
          fo \in {ArraySort(lookups, comparefn)}}

\* foldersWithDates.sort(...) and the rebuilding of node.subfolders
FoldersSorted(node) ==
    LET lookups == [i \in 1..Len(node.subfolders) |->
                       LET track == findMostRecentTrack(node.subfolders[i].node)
                       IN [name |-> node.subfolders[i].key,
                           node |-> node.subfolders[i].node,
                           date |-> IF track # Null THEN getGpxFirstDate(track)
                                                    ELSE Epoch]]
    IN {[node EXCEPT !.subfolders = Rebuild(so, 1, EmptyObject)] :
          so \in {ArraySort(lookups, "foldersCompare")}}

\* children.sort(async ...) and the rebuilding of the node, inline script
FoldersSortedInline(node) ==
    LET children == [i \in 1..Len(node.subfolders) |->
                        [name |-> node.subfolders[i].key,
                         node |-> node.subfolders[i].node]]
    IN {[node EXCEPT !.subfolders = Rebuild(so, 1, EmptyObject)] :
          so \in {ArraySort(children, "inlineCompare")}}

InitSteps ==
    /\ page \in {"root", "maps"}
    /\ variant \in IF page = "root" THEN {"module", "inline"} ELSE {"module"}
    /\ response \in {[kind |-> "tree", paths |-> l] : l \in SortListings(page)}
    /\ remote \in [Range(response.paths) -> TrackContents]
    /\ tree = IF page = "maps" THEN fetchGpxTreeMaps(response)
                               ELSE fetchGpxTree(response)
    /\ treePc = "resolved"
    /\ pagePc = "loading"
    /\ BlankPage
    /\ IdleGpx
    /\ IdleProbe
    /\ IdleLayers
    /\ engine \in Engines
    /\ IdleAddress
    /\ IdleFormat
    /\ IdleBoat
    /\ IdleEvent
    /\ IdleColor
    /\ IdleUi
    /\ work = tree
    /\ phase = [d \in FolderIds(tree) |-> "idle"]

\* sortTreeByDate(tree) is called: the lookups of the root's files are issued
CallSortTreeByDate ==
    /\ variant = "module"
    /\ phase[<<>>] = "idle"
    /\ phase' = [phase EXCEPT ![<<>>] = "lookups"]
    /\ UNCHANGED <<treeVars, gpxVars, engineVars, addressVars, formatVars, boatVars, eventVars, colorVars, uiVars, pageVars, probeVars, layerVars, variant, work>>

\* The lookups of the files of d have resolved: the files are sorted, then
\* the sort of the first subfolder is called, or with no subfolder the
\* (empty) list of folder lookups is awaited.
AfterFileLookups(d) ==
    /\ variant = "module"
    /\ phase[d] = "lookups"
    /\ \E sorted \in FilesSorted(NodeAt(work, d),
                                 IF page = "maps" THEN "filesCompareMaps"
                                                  ELSE "filesCompare") :
          work' = ReplaceAt(work, d, sorted)
    /\ phase' = IF Len(Children(d)) > 0
                THEN [phase EXCEPT ![d] = "children",
                                   ![Children(d)[1]] = "lookups"]
                ELSE [phase EXCEPT ![d] = "keys"]
    /\ tree' = work'
    /\ UNCHANGED <<response, treePc, gpxVars, engineVars, addressVars, formatVars, boatVars, eventVars, colorVars, uiVars, pageVars, probeVars, layerVars, variant>>

\* The awaited sort of a subfolder of d has returned: the sort of the next
\* subfolder is called, or after the last one the folder lookups are issued.
AfterSubfolderSort(d) ==
    /\ variant = "module"
    /\ phase[d] = "children"
    /\ \E i \in 1..Len(Children(d)) :
          /\ phase[Children(d)[i]] = "done"
          /\ \A j \in (i + 1)..Len(Children(d)) : phase[Children(d)[j]] = "idle"
          /\ phase' = IF i < Len(Children(d))
                      THEN [phase EXCEPT ![Children(d)[i + 1]] = "lookups"]
                      ELSE [phase EXCEPT ![d] = "keys"]
    /\ UNCHANGED <<treeVars, gpxVars, engineVars, addressVars, formatVars, boatVars, eventVars, colorVars, uiVars, pageVars, probeVars, layerVars, variant, work>>

\* The folder lookups of d have resolved: the subfolders are sorted and
\* stored back, and the call returns.
AfterFolderLookups(d) ==
    /\ variant = "module"
    /\ phase[d] = "keys"
    /\ \E sorted \in FoldersSorted(NodeAt(work, d)) :
          work' = ReplaceAt(work, d, sorted)
    /\ phase' = [phase EXCEPT ![d] = "done"]
    /\ tree' = work'
    /\ UNCHANGED <<response, treePc, gpxVars, engineVars, addressVars, formatVars, boatVars, eventVars, colorVars, uiVars, pageVars, probeVars, layerVars, variant>>

\* sortTreeByDate(node) of the inline script up to its first await: with
\* files their lookups are issued; without, the sorts of all subfolders are
\* called one after the other, each up to its first await.
RECURSIVE InlineCall(_, _, _)

RECURSIVE InlineCallChildren(_, _, _, _)
InlineCallChildren(ph, node, d, i) ==
    IF i > Len(node.subfolders) THEN ph
    ELSE InlineCallChildren(
             InlineCall(ph, node.subfolders[i].node,
                        Append(d, node.subfolders[i].key)),
             node, d, i + 1)

InlineCall(ph, node, d) ==
    IF Len(node.files) > 0 THEN [ph EXCEPT ![d] = "lookups"]
    ELSE InlineCallChildren([ph EXCEPT ![d] = "children"], node, d, 1)

\* await sortTreeByDate(root) of the inline script
CallInlineSort ==
    /\ variant = "inline"
    /\ phase[<<>>] = "idle"
    /\ phase' = InlineCall(phase, work, <<>>)
    /\ UNCHANGED <<treeVars, gpxVars, engineVars, addressVars, formatVars, boatVars, eventVars, colorVars, uiVars, pageVars, probeVars, layerVars, variant, work>>

\* The lookups of the files of d have resolved: the files are sorted and
\* children.map calls the sort of every subfolder.
InlineAfterFileLookups(d) ==
    /\ variant = "inline"
    /\ phase[d] = "lookups"
    /\ \E sorted \in FilesSorted(NodeAt(work, d), "filesCompare") :
          work' = ReplaceAt(work, d, sorted)
    /\ phase' = InlineCallChildren([phase EXCEPT ![d] = "children"],
                                   NodeAt(work, d), d, 1)
    /\ tree' = work'
    /\ UNCHANGED <<response, treePc, gpxVars, engineVars, addressVars, formatVars, boatVars, eventVars, colorVars, uiVars, pageVars, probeVars, layerVars, variant>>

\* The Promise.all over the sorts of the subfolders of d has resolved: the
\* children are sorted and stored back, and the call returns.
InlineAfterSubfolderSorts(d) ==
    /\ variant = "inline"
    /\ phase[d] = "children"
    /\ \A i \in 1..Len(Children(d)) : phase[Children(d)[i]] = "done"
    /\ \E sorted \in FoldersSortedInline(NodeAt(work, d)) :
          work' = ReplaceAt(work, d, sorted)
    /\ phase' = [phase EXCEPT ![d] = "done"]
    /\ tree' = work'
    /\ UNCHANGED <<response, treePc, gpxVars, engineVars, addressVars, formatVars, boatVars, eventVars, colorVars, uiVars, pageVars, probeVars, layerVars, variant>>

NextSteps ==
    \/ CallSortTreeByDate
    \/ \E d \in DOMAIN phase : AfterFileLookups(d)
    \/ \E d \in DOMAIN phase : AfterSubfolderSort(d)
    \/ \E d \in DOMAIN phase : AfterFolderLookups(d)
    \/ CallInlineSort
    \/ \E d \in DOMAIN phase : InlineAfterFileLookups(d)
    \/ \E d \in DOMAIN phase : InlineAfterSubfolderSorts(d)

SpecSteps == InitSteps /\ [][NextSteps]_vars

-----------------------------------------------------------------------------
(* The order of the steps of sortTreeByDate *)

InProgress(d) == phase[d] \in {"lookups", "children", "keys"}

AllSubfoldersDone(d) ==
    \A i \in 1..Len(Children(d)) : phase[Children(d)[i]] = "done"

\* The folder has sorted its files: its lookups have resolved
HasSortedFiles(d) ==
    /\ Len(NodeAt(work, d).files) > 0
    /\ phase[d] \in {"children", "keys", "done"}

\* The folder has computed ordering keys or sorted its subfolders
HasOrderedSubfolders(d) == phase[d] \in {"keys", "done"}

\* C17: in every folder at most one sort of a subfolder is in progress, and
\* the folder has sorted its files, computed its folder keys or ordered its
\* subfolders only when the sorts of all its subfolders have returned.
C17_SubfoldersSortedOneByOneBeforeOwnSort ==
    variant # "none" =>
        \A d \in DOMAIN phase :
            /\ \A i, j \in 1..Len(Children(d)) :
                  (InProgress(Children(d)[i]) /\ InProgress(Children(d)[j]))
                      => i = j
            /\ HasSortedFiles(d) => AllSubfoldersDone(d)
            /\ HasOrderedSubfolders(d) => AllSubfoldersDone(d)

-----------------------------------------------------------------------------
(* The order of the files of a folder as fetchGpxTree builds it *)

\* The path without its last segment, with the final "/"
DirectoryOf(path) == SubSeq(path, 1, Len(path) - Len(LastSegment(path)))

\* The accepted entries of the listing that lie directly in a directory, in
\* listing order and as often as the listing has them
ListedIn(dir) ==
    LET liesIn(p) == AcceptedOn(p) /\ DirectoryOf(IdentifierOf(p)) = dir
        entries == SelectSeq(response.paths, liesIn)
    IN [i \in 1..Len(entries) |-> IdentifierOf(entries[i])]

\* C18: the tree has a folder for the root and for the directory of every
\* accepted entry, and the files of each are the accepted entries lying
\* directly in it, in listing order, each as often as the listing has it.
C18_FilesInListingOrderWithRepeats ==
    (treePc = "resolved" /\ response.kind = "tree") =>
        /\ IsTreeNode(tree)
        /\ \A dir \in {GPX_DIRECTORY \o S}
                        \cup {DirectoryOf(IdentifierOf(p)) : p \in AcceptedEntries} :
              <<dir, ListedIn(dir)>> \in FolderListings(tree, tree.name \o S)

-----------------------------------------------------------------------------
(* The track selected when the page has loaded *)

\* C19: when the initialisation of the root page has finished and some
\* track of the sorted tree has a first timestamp after the epoch, the
\* checkbox of the track findMostRecentTrack returns is checked and the
\* track is a key of loadedTracks.
C19_MostRecentTrackSelectedOnLoad ==
    (page = "root" /\ pagePc = "done"
       /\ findMostRecentTrack(sortedTree) # Null)
        => /\ \E i \in 1..Len(checkboxes) :
                 /\ checkboxes[i].kind = "track"
                 /\ checkboxes[i].value = findMostRecentTrack(sortedTree)
                 /\ checkboxes[i].checked
           /\ findMostRecentTrack(sortedTree) \in loadedTracks

-----------------------------------------------------------------------------
(* Tracks on the map: addTrackToMap and removeTrackFromMap of map.js (page *)
(* "root") and of maps/map.js (page "maps").  A layer is named by its      *)
(* index in layers.  The map holds the L.GPX layer of a track ("gpx"), the *)
(* track layer the plugin puts into it once the text is parsed ("sub"),    *)
(* and the marker that shows the track's statistics ("label").  stage is   *)
(* "loading" until the event 'loaded' fires, "info" while the handler      *)
(* awaits getGpxInfo, "ready" when the handler has returned.               *)

-----------------------------------------------------------------------------
(* Track colours: colorTrackByFile of map.js and of maps/map.js.  A key    *)
(* always ends in ".gpx" or in "::trk0", so no key is a property that the  *)
(* colour map inherits from Object.prototype.                              *)

\* src/constants.js:5
globalColorPalette ==
    <<"red", "blue", "green", "orange", "purple",
       "teal", "brown", "pink", "gray">>

\* src/maps/map.js:173-178
COLORS ==
    <<"#e6194b", "#3cb44b", "#ffe119", "#4363d8", "#f58231",
       "#911eb4", "#46f0f0", "#f032e6", "#bcf60c", "#fabebe",
       "#008080", "#e6beff", "#9a6324", "#fffac8", "#800000",
       "#aaffc3", "#808000", "#ffd8b1", "#000075", "#808080">>

Palette == IF page = "root" THEN globalColorPalette ELSE COLORS

\* The key the colour is kept under: filename.split('/').pop() in map.js,
\* `${filename}::trk${i}` for the only track of the file in maps/map.js
ColorKey(filename) ==
    IF page = "root" THEN LastSegment(filename)
    ELSE filename \o <<":", ":", "t", "r", "k", "0">>

\* colorMap[key] = color
SetColor(colorMap, key, color) ==
    [k \in DOMAIN colorMap \cup {key} |->
        IF k = key THEN color ELSE colorMap[k]]

\* colorTrackByFile(layer, key): the colour map and the counter it leaves
\* and the colour it draws the track in; fresh when the key had no colour
colorTrackByFile(colorMap, index, key) ==
    IF key \notin DOMAIN colorMap
    THEN [map |-> SetColor(colorMap, key, Palette[(index % Len(Palette)) + 1]),
          index |-> index + 1,
          fresh |-> TRUE,
          color |-> Palette[(index % Len(Palette)) + 1]]
    ELSE [map |-> colorMap, index |-> index, fresh |-> FALSE,
          color |-> colorMap[key]]

\* The colour the plugin draws a track in that no style was set for
DefaultColor == "default"

\* The handler of 'loaded' ended before it coloured the track: a track
\* that is shown on the map is drawn in the colour of the plugin, which is
\* a later display of its key when the key has a colour
LeftUncoloured(filename, shown) ==
    /\ displayed' =
          IF shown /\ ColorKey(filename) \in DOMAIN fileColorMap
          THEN [f \in DOMAIN displayed \cup {filename} |->
                   IF f = filename
                   THEN (IF f \in DOMAIN displayed THEN displayed[f] ELSE {})
                          \cup {DefaultColor}
                   ELSE displayed[f]]
          ELSE displayed
    /\ UNCHANGED <<fileColorMap, colorIndex, assigned>>

\* The handler of 'loaded' colours the track of the file.
ColorLoaded(filename) ==
    LET done == colorTrackByFile(fileColorMap, colorIndex, ColorKey(filename))
    IN /\ fileColorMap' = done.map
       /\ colorIndex' = done.index
       /\ assigned' = IF done.fresh THEN Append(assigned, ColorKey(filename))
                                    ELSE assigned
       /\ displayed' = [f \in DOMAIN displayed \cup {filename} |->
                          IF f = filename
                          THEN (IF f \in DOMAIN displayed THEN displayed[f]
                                                          ELSE {})
                                 \cup {done.color}
                          ELSE displayed[f]]

\* The most layers created
MaxLayers == 3

MapFiles == {PathRootFile, PathInA}

MapContents ==
    { FetchRejects,
      Content(<<Time("1970-01-01T00:00:10Z"), Trkpt("0", "0"), Trkpt("0", "1"),
                Time("1970-01-01T01:30:10Z")>>) }

Gpx(l) == [kind |-> "gpx", layer |-> l]

Sub(l) == [kind |-> "sub", layer |-> l]

Label(l) == [kind |-> "label", layer |-> l]

\* loadedTracks[filename] = gpxLayer
Register(filename, l) ==
    [f \in DOMAIN trackLayers \cup {filename} |->
        IF f = filename THEN l ELSE trackLayers[f]]

\* delete loadedTracks[filename]
Unregister(filename) ==
    [f \in DOMAIN trackLayers \ {filename} |-> trackLayers[f]]

\* The file is a key of loadedTracks and every layer created for it has
\* handled its event 'loaded' to the end
FinishedLoading(filename) ==
    /\ filename \in DOMAIN trackLayers
    /\ \A l \in 1..Len(layers) :
          layers[l].file = filename => layers[l].stage = "ready"

InitMap ==
    /\ page \in {"root", "maps"}
    /\ remote \in [{RawPath(f) : f \in MapFiles} -> MapContents]
    /\ pagePc = "done"
    /\ BlankPage
    /\ IdleTree
    /\ IdleGpx
    /\ IdleProbe
    /\ IdleSteps
    /\ IdleLayers
    /\ IdleEngine
    /\ IdleAddress
    /\ IdleFormat
    /\ IdleBoat
    /\ IdleEvent
    /\ IdleColor
    /\ IdleUi

\* addTrackToMap(filename): the layer is created and put on the map; map.js
\* registers it at once, maps/map.js only when it has loaded.
AddTrackToMap(filename) ==
    /\ Len(layers) < MaxLayers
    /\ layers' = Append(layers, [file |-> filename, stage |-> "loading",
                                 infoLabel |-> FALSE, subInfoLabel |-> FALSE])
    /\ onMap' = onMap \cup {Gpx(Len(layers) + 1)}
    /\ trackLayers' = IF page = "root" THEN Register(filename, Len(layers) + 1)
                                       ELSE trackLayers
    /\ loadedTracks' = DOMAIN trackLayers'
    /\ lastCall' = [op |-> "add", file |-> filename, finished |-> FALSE]
    /\ UNCHANGED <<treeVars, gpxVars, engineVars, addressVars, formatVars, boatVars, eventVars, colorVars, uiVars, probeVars, stepVars, page, remote,
                   sortedTree, pagePc, checkboxes, boatMarker, fallbackView,
                   mapView>>

\* fitMapToAllTracks() as the handler of layer l calls it in map.js, before
\* anything else: loadedTracks has keys and no layer in it has bounds, so
\* the combined bounds are not valid and map.fitBounds throws.  A layer has
\* bounds once its text is parsed (every text that parses has track
\* points), and none before.  The layer that fires is in loadedTracks
\* unless the file was removed or added again since.  In maps/map.js the
\* call comes last, with layer l registered.
FitThrows(l) ==
    LET hasBounds(k) == k = l \/ layers[k].stage # "loading"
    IN /\ page = "root"
       /\ DOMAIN trackLayers # {}
       /\ \A f \in DOMAIN trackLayers : ~hasBounds(trackLayers[f])

\* The text of layer l is fetched and parsed: the plugin adds the track
\* layer to the L.GPX layer, and with it to the map when the L.GPX layer is
\* on the map, and fires 'loaded'; the handler runs up to await getGpxInfo,
\* or ends at once where fitMapToAllTracks throws: the track is then
\* neither coloured nor labelled.
TrackLoaded(l) ==
    /\ layers[l].stage = "loading"
    /\ fetchGpxText(layers[l].file).ok
    /\ onMap' = IF Gpx(l) \in onMap THEN onMap \cup {Sub(l)} ELSE onMap
    /\ IF FitThrows(l)
       THEN /\ layers' = [layers EXCEPT ![l].stage = "ready"]
            /\ LeftUncoloured(layers[l].file, Gpx(l) \in onMap)
       ELSE /\ layers' = [layers EXCEPT ![l].stage = "info"]
            /\ ColorLoaded(layers[l].file)
    /\ UNCHANGED <<treeVars, gpxVars, engineVars, addressVars, formatVars, boatVars, eventVars, uiVars, pageVars, probeVars, stepVars,
                   trackLayers, lastCall>>

\* getGpxInfo has settled for layer l: unless it rejected, the label is put
\* on the map and kept in _infoLabel, of the L.GPX layer in map.js and of
\* the track layer in maps/map.js, which then adds the track layer to the
\* map and registers the L.GPX layer.
InfoSettled(l) ==
    /\ layers[l].stage = "info"
    /\ \E rejected \in BOOLEAN :
          /\ layers' = [layers EXCEPT
                          ![l].stage = "ready",
                          ![l].infoLabel = (page = "root" /\ ~rejected),
                          ![l].subInfoLabel = (page = "maps" /\ ~rejected)]
          /\ onMap' = onMap
                        \cup (IF rejected THEN {} ELSE {Label(l)})
                        \cup (IF page = "maps" THEN {Sub(l)} ELSE {})
    /\ trackLayers' = IF page = "maps" THEN Register(layers[l].file, l)
                                       ELSE trackLayers
    /\ loadedTracks' = DOMAIN trackLayers'
    /\ UNCHANGED <<treeVars, gpxVars, engineVars, addressVars, formatVars, boatVars, eventVars, colorVars, uiVars, probeVars, stepVars, page, remote,
                   sortedTree, pagePc, checkboxes, boatMarker, fallbackView,
                   mapView, lastCall>>

\* removeTrackFromMap(filename): for a key of loadedTracks the label kept
\* in _infoLabel of the L.GPX layer, the track layer and the L.GPX layer
\* leave the map, the key is deleted, and the map returns to the fallback
\* view when no key is left.  Where its fitMapToAllTracks() throws, keys
\* are left, so the call has changed all it would have changed.
RemoveTrackFromMap(filename) ==
    /\ lastCall' = [op |-> "remove", file |-> filename,
                    finished |-> FinishedLoading(filename)]
    /\ IF filename \in DOMAIN trackLayers
       THEN LET l == trackLayers[filename]
            IN /\ onMap' = (onMap \ (IF layers[l].infoLabel THEN {Label(l)}
                                                            ELSE {}))
                              \ {Sub(l), Gpx(l)}
               /\ trackLayers' = Unregister(filename)
               /\ loadedTracks' = DOMAIN trackLayers'
               /\ mapView' = IF DOMAIN trackLayers' = {} THEN fallbackView
                                                         ELSE mapView
       ELSE UNCHANGED <<onMap, trackLayers, loadedTracks, mapView>>
    /\ UNCHANGED <<treeVars, gpxVars, engineVars, addressVars, formatVars, boatVars, eventVars, colorVars, uiVars, probeVars, stepVars, page, remote,
                   sortedTree, pagePc, checkboxes, boatMarker, fallbackView,
                   layers>>

NextMap ==
    \/ \E filename \in MapFiles : AddTrackToMap(filename)
    \/ \E l \in 1..Len(layers) : TrackLoaded(l)
    \/ \E l \in 1..Len(layers) : InfoSettled(l)
    \/ \E filename \in MapFiles : RemoveTrackFromMap(filename)

SpecMap == InitMap /\ [][NextMap]_vars

\* What the map holds of a track
OnMapOf(filename) == {x \in onMap : layers[x.layer].file = filename}

\* C20: after removeTrackFromMap(filename) was called for a track that was
\* added and has finished loading, the map holds no layer and no label of
\* that track, and filename is not a key of loadedTracks.
C20_NothingOfTheTrackRemains ==
    (lastCall.op = "remove" /\ lastCall.finished)
        => /\ OnMapOf(lastCall.file) = {}
           /\ lastCall.file \notin DOMAIN trackLayers

\* C22: the counter is the number of keys with a colour, the keys have the
\* palette's colours in the order they were first coloured, starting again
\* at the first colour after the last, and every drawing of a track whose
\* key had a colour was in the colour of its key.
C22_ColoursConsistentAndInPaletteOrder ==
    /\ colorIndex = Len(assigned)
    /\ colorIndex = Cardinality(DOMAIN fileColorMap)
    /\ \A i \in 1..Len(assigned) :
          fileColorMap[assigned[i]] = Palette[((i - 1) % Len(Palette)) + 1]
    /\ \A f \in DOMAIN displayed :
          displayed[f] = {fileColorMap[ColorKey(f)]}

-----------------------------------------------------------------------------
(* The query string.  A character outside the letters and digits has the  *)
(* two hexadecimal digits of its code in CharCodes; the texts drawn use no *)
(* other character.                                                        *)

Alnum ==
    {"a", "b", "c", "d", "e", "f", "g", "h", "i", "j", "k", "l", "m", "n", "o",
     "p", "q", "r", "s", "t", "u", "v", "w", "x", "y", "z", "A", "B", "C", "D",
     "E", "F", "G", "H", "I", "J", "K", "L", "M", "N", "O", "P", "Q", "R", "S",
     "T", "U", "V", "W", "X", "Y", "Z"} \cup Digits

CharCodes ==
    { <<" ", "2", "0">>, <<"!", "2", "1">>, <<"#", "2", "3">>,
      <<"%", "2", "5">>, <<"&", "2", "6">>, <<"'", "2", "7">>,
      <<"(", "2", "8">>, <<")", "2", "9">>, <<"*", "2", "A">>,
      <<"+", "2", "B">>, <<",", "2", "C">>, <<"-", "2", "D">>,
      <<".", "2", "E">>, <<"/", "2", "F">>, <<"=", "3", "D">>,
      <<"?", "3", "F">>, <<"_", "5", "F">>, <<"~", "7", "E">> }

\* "%XX" for a character
PercentEncoded(c) ==
    LET t == CHOOSE t \in CharCodes : t[1] = c IN <<"%", t[2], t[3]>>

IsCode(hi, lo) == \E t \in CharCodes : t[2] = hi /\ t[3] = lo

Decoded(hi, lo) == (CHOOSE t \in CharCodes : t[2] = hi /\ t[3] = lo)[1]

URIError == [error |-> "URIError"]

\* A text with every character outside kept written as "%XX", a space as
\* "+" where plus says so.  The text is worked on in halves: a query string
\* is long.
RECURSIVE Escaped(_, _, _)
Escaped(str, kept, plus) ==
    IF Len(str) = 0 THEN <<>>
    ELSE IF Len(str) = 1
    THEN (IF str[1] \in kept THEN str
          ELSE IF plus /\ str[1] = " " THEN <<"+">>
          ELSE PercentEncoded(str[1]))
    ELSE Escaped(SubSeq(str, 1, Len(str) \div 2), kept, plus)
           \o Escaped(SubSeq(str, Len(str) \div 2 + 1, Len(str)), kept, plus)

\* The places of a text where "%" and two hexadecimal digits stand
Escapes(str) ==
    {i \in 1..Len(str) :
        str[i] = "%" /\ i + 2 <= Len(str) /\ IsCode(str[i + 1], str[i + 2])}

\* A text read from the left: "%XX" as its character, "+" as a space where
\* plus says so, any other "%" left
RECURSIVE UnescapedInOrder(_, _)
UnescapedInOrder(str, plus) ==
    IF str = <<>> THEN <<>>
    ELSE IF Head(str) = "%" /\ Len(str) >= 3 /\ IsCode(str[2], str[3])
    THEN <<Decoded(str[2], str[3])>>
           \o UnescapedInOrder(SubSeq(str, 4, Len(str)), plus)
    ELSE <<IF plus /\ Head(str) = "+" THEN " " ELSE Head(str)>>
           \o UnescapedInOrder(Tail(str), plus)

\* The same, the text worked on in two parts where it can be cut: not
\* within two characters after a "%"
RECURSIVE Unescaped(_, _)
Unescaped(str, plus) ==
    LET cuts == {c \in 1..(Len(str) - 1) :
                    str[c] # "%" /\ (c = 1 \/ str[c - 1] # "%")}
        far(c) == IF 2 * c >= Len(str) THEN 2 * c - Len(str)
                                       ELSE Len(str) - 2 * c
    IN IF cuts = {} THEN UnescapedInOrder(str, plus)
       ELSE LET c == CHOOSE c \in cuts : \A d \in cuts : far(c) <= far(d)
            IN Unescaped(SubSeq(str, 1, c), plus)
                 \o Unescaped(SubSeq(str, c + 1, Len(str)), plus)

\* An encoding that leaves the comma as it is, as encodeURI does.
EncodeKeepingComma(str) ==
    Escaped(str, Alnum \cup {"-", "_", ".", "!", "~", "*", "'", "(", ")", ","},
            FALSE)

\* encodeURIComponent(str): letters, digits and - _ . ! ~ * ' ( ) stay
encodeURIComponent(str) ==
    Escaped(str, Alnum \cup {"-", "_", ".", "!", "~", "*", "'", "(", ")"}, FALSE)

\* Does the text hold a "%" that two hexadecimal digits do not follow?
Malformed(str) ==
    \E i \in 1..Len(str) : str[i] = "%" /\ i \notin Escapes(str)

\* decodeURIComponent(str): throws URIError on a malformed text
decodeURIComponent(str) ==
    IF Malformed(str) THEN URIError ELSE Unescaped(str, FALSE)

\* Array.prototype.join(sep)
RECURSIVE Join(_, _)
Join(parts, sep) ==
    IF Len(parts) = 0 THEN <<>>
    ELSE IF Len(parts) = 1 THEN parts[1]
    ELSE parts[1] \o sep \o Join(Tail(parts), sep)

\* The application/x-www-form-urlencoded byte serializer: letters, digits
\* and * - . _ stay, a space becomes "+"
FormEncode(str) == Escaped(str, Alnum \cup {"*", "-", ".", "_"}, TRUE)

\* The application/x-www-form-urlencoded decoding of a name or a value: "+"
\* becomes a space, "%XX" its character, any other "%" stays
FormDecode(str) == Unescaped(str, TRUE)

\* String.prototype.split(sep) by the places of the separators, for texts
\* as long as a query string
SplitLong(s, sep) ==
    LET at == {i \in 1..Len(s) : s[i] = sep}
        place == [k \in 0..(Cardinality(at) + 1) |->
                     IF k = 0 THEN 0
                     ELSE IF k > Cardinality(at) THEN Len(s) + 1
                     ELSE CHOOSE i \in at :
                              Cardinality({j \in at : j <= i}) = k]
    IN [k \in 1..(Cardinality(at) + 1) |->
           SubSeq(s, place[k - 1] + 1, place[k] - 1)]

\* The pair of name and value of one piece between "&"
ParsePair(piece) ==
    LET eq == {i \in 1..Len(piece) : piece[i] = "="}
        at == IF eq = {} THEN Len(piece) + 1
              ELSE CHOOSE i \in eq : \A j \in eq : i <= j
    IN [name |-> FormDecode(SubSeq(piece, 1, at - 1)),
        value |-> FormDecode(SubSeq(piece, at + 1, Len(piece)))]

\* new URLSearchParams(window.location.search): the list of pairs
URLSearchParams(init) ==
    LET query == IF Len(init) > 0 /\ init[1] = "?" THEN Tail(init) ELSE init
        pieces == SelectSeq(SplitLong(query, "&"), LAMBDA piece : piece # <<>>)
    IN [i \in 1..Len(pieces) |-> ParsePair(pieces[i])]

\* params.get(name): the value of the first pair of that name, or null
ParamsGet(params, name) ==
    LET hits == {i \in 1..Len(params) : params[i].name = name}
    IN IF hits = {} THEN Null
       ELSE params[CHOOSE i \in hits : \A j \in hits : i <= j].value

\* params.delete(name)
ParamsDelete(params, name) ==
    SelectSeq(params, LAMBDA pair : pair.name # name)

\* params.set(name, value): the first pair of that name takes the value and
\* the others go; without one the pair is appended
ParamsSet(params, name, value) ==
    LET hits == {i \in 1..Len(params) : params[i].name = name}
    IN IF hits = {} THEN Append(params, [name |-> name, value |-> value])
       ELSE LET first == CHOOSE i \in hits : \A j \in hits : i <= j
                kept == {i \in 1..Len(params) : i = first \/ i \notin hits}
                idx == [k \in 1..Cardinality(kept) |->
                           CHOOSE i \in kept :
                               Cardinality({j \in kept : j < i}) = k - 1]
            IN [k \in 1..Cardinality(kept) |->
                   IF idx[k] = first THEN [name |-> name, value |-> value]
                   ELSE params[idx[k]]]

\* params.toString()
ParamsToString(params) ==
    Join([i \in 1..Len(params) |->
             FormEncode(params[i].name) \o <<"=">> \o FormEncode(params[i].value)],
         <<"&">>)

\* String.prototype.trim()
RECURSIVE TrimStart(_)
TrimStart(str) ==
    IF str # <<>> /\ Head(str) = " " THEN TrimStart(Tail(str)) ELSE str

RECURSIVE TrimEnd(_)
TrimEnd(str) ==
    IF str # <<>> /\ str[Len(str)] = " "
    THEN TrimEnd(SubSeq(str, 1, Len(str) - 1))
    ELSE str

Trim(str) == TrimEnd(TrimStart(str))

\* checked.map(encodeURIComponent).join(',')
EncodedList(list) ==
    Join([i \in 1..Len(list) |-> encodeURIComponent(list[i])], <<",">>)

\* The values of the checked track checkboxes, in document order
CheckedTracks(cbs) ==
    LET hits == SelectSeq(cbs, LAMBDA cb : cb.kind = "track" /\ cb.checked)
    IN [i \in 1..Len(hits) |-> hits[i].value]

\* The trimmed labels of the checked folder checkboxes, the empty ones left
\* out
CheckedFolders(cbs) ==
    LET hits == SelectSeq(cbs, LAMBDA cb :
                    cb.kind = "folder" /\ cb.checked /\ Trim(cb.label) # <<>>)
    IN [i \in 1..Len(hits) |-> Trim(hits[i].label)]

\* updateUrlParams(): the query string history.replaceState leaves
updateUrlParams(cbs, bulk, query) ==
    LET params == URLSearchParams(query)
        listed == IF bulk THEN CheckedFolders(cbs) ELSE CheckedTracks(cbs)
        mine == IF bulk THEN <<"f", "o", "l", "d", "e", "r", "s">> ELSE <<"t", "r", "a", "c", "k", "s">>
        other == IF bulk THEN <<"t", "r", "a", "c", "k", "s">> ELSE <<"f", "o", "l", "d", "e", "r", "s">>
        updated == ParamsDelete(
                       IF Len(listed) > 0
                       THEN ParamsSet(params, mine, EncodedList(listed))
                       ELSE ParamsDelete(params, mine),
                       other)
        text == ParamsToString(updated)
    IN IF text = <<>> THEN <<>> ELSE <<"?">> \o text

\* trackList.split(',') of the page initialisation; nothing without a tracks
\* parameter or with an empty one
TrackListOfUrl(query) ==
    LET trackList == ParamsGet(URLSearchParams(query), <<"t", "r", "a", "c", "k", "s">>)
    IN IF trackList = Null \/ trackList = <<>> THEN <<>>
       ELSE SplitLong(trackList, ",")

MaxUrlListing == 2

\* Listed tracks whose identifiers and folders have the characters the
\* encodings treat differently
UrlPaths ==
    { <<"g", "p", "x", "F", "i", "l", "e", "s", "/", "a", ",", "b", ".", "g", "p", "x">>,
      <<"g", "p", "x", "F", "i", "l", "e", "s", "/", "1", "%", "2", "C", ".", "g", "p", "x">>,
      <<"g", "p", "x", "F", "i", "l", "e", "s", "/", "a", " ", "b", ".", "g", "p", "x">>,
      <<"g", "p", "x", "F", "i", "l", "e", "s", "/", "A", " ", "B", "/", "c", "&", "d", ".", "g", "p", "x">>,
      <<"g", "p", "x", "F", "i", "l", "e", "s", "/", "A", ",", "B", "/", "x", "+", "y", "=", "z", ".", "g", "p", "x">> }

\* The listings of the repository: up to MaxUrlListing of the paths, none
\* twice
UrlListings ==
    { l \in UNION { [1..n -> UrlPaths] : n \in 0..MaxUrlListing } :
        \A i, j \in 1..Len(l) : l[i] = l[j] => i = j }

\* The query strings the page can have been opened with
UrlSearches == { <<>>, <<"?", "t", "r", "a", "c", "k", "s", "=", "o", "l", "d", "%", "2", "C", "o", "n", "e", ",", "t", "w", "o", "&", "x", "=", "1">>, <<"?", "f", "o", "l", "d", "e", "r", "s", "=", "A", "&", "t", "r", "a", "c", "k", "s", "=", "t">> }

\* The maps page in use: its initialisation has finished, the list
\* createUIFromTree built has been clicked on and the host delivers no
\* track.
InitUrl ==
    /\ page = "maps"
    /\ response \in {[kind |-> "tree",
                      paths |-> [i \in 1..Len(l) |->
                                    WEBPAGE_ROOT_DIRECTORY \o S \o l[i]]] :
                        l \in UrlListings}
    /\ remote = [pth \in Range(response.paths) |-> FetchRejects]
    /\ tree = fetchGpxTreeMaps(response)
    /\ treePc = "resolved"
    /\ pagePc = "done"
    /\ sortedTree = tree
    /\ checkboxes \in
          LET built == createUIFromTree(sortedTree, <<>>)
          IN {[i \in 1..Len(built) |-> [built[i] EXCEPT !.checked = c[i]]] :
                c \in [1..Len(built) -> BOOLEAN]}
    /\ boatMarker = NullObject
    /\ fallbackView = DefaultCenter
    /\ mapView = DefaultCenter
    /\ loadedTracks = {}
    /\ isBulkUpdating \in BOOLEAN
    /\ search \in UrlSearches
    /\ urlTracks = <<>>
    /\ uiPc = "idle"
    /\ IdleGpx
    /\ IdleProbe
    /\ IdleSteps
    /\ IdleLayers
    /\ IdleEngine
    /\ IdleAddress
    /\ IdleFormat
    /\ IdleBoat
    /\ IdleEvent
    /\ IdleColor

-----------------------------------------------------------------------------
(* The track list in use: the change listeners of the checkboxes, Select   *)
(* All and Clear All, with the layers loading in between.  dispatchEvent   *)
(* runs the listeners of its target at once, in the order they were        *)
(* attached: the listener createCheckbox attached, or the one of the       *)
(* folder checkbox itself, then the one every folder above attached to the *)
(* checkboxes of its sublist, the innermost folder first.  st is the state *)
(* a listener works on: [cbs, bulk, written, layers, onMap, trackLayers,  *)
(* mapView].  written lists what each call of updateUrlParams found, the   *)
(* checkboxes and isBulkUpdating; nothing but updateUrlParams reads or     *)
(* writes the address, so the calls are replayed on it when the listeners  *)
(* of the click have returned.  layers holds the L.GPX layers that the     *)
(* map, loadedTracks or a pending callback still refers to; the others are *)
(* dropped when the listeners of a click have returned.                    *)

\* addTrackToMap(filename)
addTrackToMap(st, filename) ==
    LET l == Len(st.layers) + 1
    IN [st EXCEPT
          !.layers = Append(@, [file |-> filename, stage |-> "loading",
                                infoLabel |-> FALSE, subInfoLabel |-> FALSE]),
          !.onMap = @ \cup {Gpx(l)},
          !.trackLayers =
              IF page = "root"
              THEN [f \in DOMAIN @ \cup {filename} |->
                       IF f = filename THEN l ELSE @[f]]
              ELSE @]

\* removeTrackFromMap(filename)
removeTrackFromMap(st, filename) ==
    IF filename \in DOMAIN st.trackLayers
       THEN LET l == st.trackLayers[filename]
                left == [f \in DOMAIN st.trackLayers \ {filename} |->
                            st.trackLayers[f]]
            IN [st EXCEPT
                  !.onMap = (@ \ (IF st.layers[l].infoLabel THEN {Label(l)}
                                                            ELSE {}))
                              \ {Sub(l), Gpx(l)},
                  !.trackLayers = left,
                  !.mapView = IF DOMAIN left = {} THEN fallbackView ELSE @]
       ELSE st

\* The listener createCheckbox attaches to the checkbox of a track; the one
\* of maps/ui_helpers.js ends with updateUrlParams()
TrackListener(st, i) ==
    LET filename == st.cbs[i].value
        called == IF st.cbs[i].checked THEN addTrackToMap(st, filename)
                                       ELSE removeTrackFromMap(st, filename)
    IN IF page = "maps"
       THEN [called EXCEPT
               !.written = Append(@, [cbs |-> st.cbs, bulk |-> st.bulk])]
       ELSE called

\* subList.querySelectorAll('input[type="checkbox"]') of folder checkbox k
Below(cbs, k) ==
    {j \in 1..Len(cbs) :
        /\ cbs[k].kind = "folder"
        /\ IsPrefix(Append(cbs[k].within, cbs[k].label), cbs[j].within)}

\* A listener that checks the folder only when all of its sublist is checked
FolderNeedsAll(st, k) ==
    IF ~st.bulk
    THEN [st EXCEPT !.cbs[k].checked =
                        \A j \in Below(st.cbs, k) : st.cbs[j].checked]
    ELSE st

\* The listener folder k attaches to every checkbox of its sublist
FolderListener(st, k) ==
    IF ~st.bulk
    THEN [st EXCEPT !.cbs[k].checked =
                        \E j \in Below(st.cbs, k) : st.cbs[j].checked]
    ELSE st

\* The listeners the folders above checkbox j attached to it, from folder k
\* upwards
RECURSIVE ListenersAbove(_, _, _)
ListenersAbove(st, j, k) ==
    IF k = 0 THEN st
    ELSE ListenersAbove(IF j \in Below(st.cbs, k) THEN FolderListener(st, k)
                                                  ELSE st,
                        j, k - 1)

RECURSIVE Dispatch(_, _)

\* checkboxes.forEach(cb => { cb.checked = folderCheckbox.checked;
\* cb.dispatchEvent(new Event('change')); }) of folder checkbox i from
\* checkbox j on
RECURSIVE BulkLoop(_, _, _)
BulkLoop(st, i, j) ==
    IF j > Len(st.cbs) THEN st
    ELSE IF j \notin Below(st.cbs, i) THEN BulkLoop(st, i, j + 1)
    ELSE BulkLoop(Dispatch([st EXCEPT !.cbs[j].checked = st.cbs[i].checked], j),
                  i, j + 1)

\* The change listener of folder checkbox i
BulkHandler(st, i) ==
    LET looped == BulkLoop([st EXCEPT !.bulk = TRUE], i, i + 1)
        written == IF page = "maps"
                   THEN [looped EXCEPT
                           !.written = Append(@, [cbs |-> looped.cbs,
                                                  bulk |-> looped.bulk])]
                   ELSE looped
    IN [written EXCEPT !.bulk = FALSE]

\* cb.dispatchEvent(new Event('change')), and the change event of a click
Dispatch(st, i) ==
    ListenersAbove(IF st.cbs[i].kind = "track" THEN TrackListener(st, i)
                                               ELSE BulkHandler(st, i),
                   i, i - 1)

\* The click listener of selectAll (value TRUE) and of clearAll (FALSE),
\* from checkbox j on
RECURSIVE SetAllFrom(_, _, _)
SetAllFrom(st, value, j) ==
    IF j > Len(st.cbs) THEN st
    ELSE SetAllFrom(IF st.cbs[j].checked # value
                    THEN Dispatch([st EXCEPT !.cbs[j].checked = value], j)
                    ELSE st,
                    value, j + 1)

\* The most layers the map, loadedTracks and the pending callbacks refer to
\* where tracks load
MaxUiLayers == 3

\* and where the host delivers no track
MaxUnloaded == 4

PathInAC == GPX_DIRECTORY \o S \o <<"a">> \o S \o <<"c">> \o S \o File1

\* A folder in a folder, and a file beside a folder
UiListings == { <<PathInAB>>, <<PathRootFile, PathInA>> }

\* A folder of two folders, and a folder with a file and a folder
NestedListings ==
    { <<PathInAB, PathInAC>>, <<PathRootFile, PathInA, PathInAB>> }

UiContent ==
    Content(<<Time("1970-01-01T00:00:10Z"), Trkpt("0", "0"), Trkpt("0", "1"),
              Time("1970-01-01T01:30:10Z")>>)

\* The page when its script has listed the tracks of a listing, every file
\* of it with the same answer of the host
Listed(listings, answer) ==
    /\ page \in {"root", "maps"}
    /\ response \in {[kind |-> "tree",
                      paths |-> [i \in 1..Len(l) |->
                                    IF page = "maps"
                                    THEN WEBPAGE_ROOT_DIRECTORY \o S \o l[i]
                                    ELSE l[i]]] : l \in listings}
    /\ remote = [pth \in Range(response.paths) |-> answer]
    /\ tree = IF page = "maps" THEN fetchGpxTreeMaps(response)
                               ELSE fetchGpxTree(response)
    /\ treePc = "resolved"
    /\ pagePc = "done"
    /\ sortedTree = tree
    /\ checkboxes = createUIFromTree(sortedTree, <<>>)
    /\ boatMarker = NullObject
    /\ fallbackView = DefaultCenter
    /\ mapView = DefaultCenter
    /\ loadedTracks = {}
    /\ IdleGpx
    /\ IdleProbe
    /\ IdleSteps
    /\ IdleLayers
    /\ IdleEngine
    /\ IdleAddress
    /\ IdleFormat
    /\ IdleBoat
    /\ IdleEvent
    /\ IdleColor
    /\ IdleUi

InitUi == Listed(UiListings, UiContent)

InitFolders == Listed(NestedListings, FetchRejects)

LayerCap ==
    IF \A pth \in DOMAIN remote : remote[pth].ok THEN MaxUiLayers
                                                  ELSE MaxUnloaded

\* What the listeners of the track list read and write
UiState ==
    [cbs |-> checkboxes, bulk |-> isBulkUpdating, written |-> <<>>,
     layers |-> layers, onMap |-> onMap, trackLayers |-> trackLayers,
     mapView |-> mapView]

\* Is layer l of the state still referred to?
Referred(st, l) ==
    \/ st.layers[l].stage # "ready"
    \/ \E x \in st.onMap : x.layer = l
    \/ \E f \in DOMAIN st.trackLayers : st.trackLayers[f] = l

\* The state with the layers nothing refers to left out
Collected(st) ==
    LET kept == {l \in 1..Len(st.layers) : Referred(st, l)}
        new(l) == Cardinality({k \in kept : k <= l})
        old(n) == CHOOSE l \in kept : new(l) = n
    IN [st EXCEPT
          !.layers = [n \in 1..Cardinality(kept) |-> st.layers[old(n)]],
          !.onMap = {[x EXCEPT !.layer = new(x.layer)] : x \in st.onMap},
          !.trackLayers = [f \in DOMAIN st.trackLayers |->
                              new(st.trackLayers[f])]]

\* The address after the calls of updateUrlParams from call n on
RECURSIVE Replayed(_, _, _)
Replayed(query, written, n) ==
    IF n > Len(written) THEN query
    ELSE LET replaced == updateUrlParams(written[n].cbs, written[n].bulk, query)
         IN IF Len(replaced) >= 0 THEN Replayed(replaced, written, n + 1)
                                  ELSE query

\* The page after the listeners of a click have returned.  selected follows
\* the last call of updateUrlParams the click led to.
AfterClick(st, event) ==
    /\ Len(st.layers) <= LayerCap
    /\ checkboxes' = st.cbs
    /\ isBulkUpdating' = st.bulk
    /\ search' = Replayed(search, st.written, 1)
    /\ layers' = Collected(st).layers
    /\ onMap' = Collected(st).onMap
    /\ trackLayers' = Collected(st).trackLayers
    /\ loadedTracks' = DOMAIN st.trackLayers
    /\ mapView' = st.mapView
    /\ lastEvent' = event
    /\ selected' = IF st.written = <<>> THEN selected
                   ELSE LET last == st.written[Len(st.written)]
                        IN [tracks |-> CheckedTracks(last.cbs),
                            bulk |-> last.bulk]
    /\ clicks' = IF uiPc = "opened" THEN clicks + 1 ELSE clicks
    /\ UNCHANGED <<treeVars, gpxVars, engineVars, formatVars, boatVars, probeVars, stepVars, colorVars, page,
                   remote, sortedTree, pagePc, boatMarker, fallbackView,
                   urlTracks, uiPc, lastCall>>

\* The user clicks checkbox i, of a track or of a folder
ClickCheckbox(i) ==
    LET value == ~checkboxes[i].checked
    IN AfterClick(Dispatch([UiState EXCEPT !.cbs[i].checked = value], i),
                  [kind |-> checkboxes[i].kind, target |-> i, value |-> value])

\* The user clicks Select All
SelectAll ==
    AfterClick(SetAllFrom(UiState, TRUE, 1),
               [kind |-> "selectAll", target |-> 0, value |-> TRUE])

\* The user clicks Clear All
ClearAll ==
    AfterClick(SetAllFrom(UiState, FALSE, 1),
               [kind |-> "clearAll", target |-> 0, value |-> FALSE])

NextUi ==
    \/ \E i \in 1..Len(checkboxes) : ClickCheckbox(i)
    \/ SelectAll
    \/ ClearAll
    \/ \E l \in 1..Len(layers) : TrackLoaded(l)
    \/ \E l \in 1..Len(layers) : InfoSettled(l)

SpecUi == InitUi /\ [][NextUi]_vars

\* The listeners alone: no layer fires 'loaded' when the host delivers no
\* track.
NextFolders ==
    \/ \E i \in 1..Len(checkboxes) : ClickCheckbox(i)
    \/ SelectAll
    \/ ClearAll

SpecFolders == InitFolders /\ [][NextFolders]_vars

-----------------------------------------------------------------------------
(* The address: updateUrlParams writes the selection into it, the page is  *)
(* opened again with it and the initialisation checks what it names.       *)

\* updateUrlParams() after a change of the selection
UpdateUrlParams ==
    /\ uiPc = "idle"
    /\ search' = updateUrlParams(checkboxes, isBulkUpdating, search)
    /\ selected' = [tracks |-> CheckedTracks(checkboxes),
                    bulk |-> isBulkUpdating]
    /\ uiPc' = "written"
    /\ UNCHANGED <<treeVars, gpxVars, engineVars, formatVars, boatVars, eventVars, colorVars, pageVars, probeVars, stepVars, layerVars,
                   isBulkUpdating, urlTracks, clicks>>

\* The page is opened again with the address written: the modules are
\* evaluated anew, so the module variables have their first values, the
\* track list is empty and fetchGpxTree() has been called but not answered.
Reopen ==
    /\ uiPc = "written"
    /\ tree' = Undefined
    /\ treePc' = "start"
    /\ pagePc' = "loading"
    /\ sortedTree' = Undefined
    /\ checkboxes' = <<>>
    /\ boatMarker' = NullObject
    /\ fallbackView' = DefaultCenter
    /\ mapView' = DefaultCenter
    /\ loadedTracks' = {}
    /\ isBulkUpdating' = FALSE
    /\ layers' = <<>>
    /\ onMap' = {}
    /\ trackLayers' = <<>>
    /\ lastEvent' = [kind |-> "none", target |-> 0, value |-> FALSE]
    /\ uiPc' = "opened"
    /\ UNCHANGED <<response, gpxVars, engineVars, formatVars, addressVars, boatVars, colorVars, probeVars, stepVars,
                   page, remote, lastCall, search, urlTracks>>

\* While the initialisation of the page opened again waits for the host,
\* for the listing, for the lookups of sortTreeByDate or for those of
\* addBoatMarker, the user can click; MaxInitClicks bounds the clicks of
\* one wait.
MaxInitClicks == 2

Waiting ==
    /\ uiPc = "opened"
    /\ pagePc \in {"loading", "sorted", "listed"}
    /\ clicks < MaxInitClicks

\* filenames.forEach(filename => { ... }): the checkbox of each filename is
\* checked and told so, from filename n on; a filename without a checkbox
\* is only warned of
RECURSIVE SelectTracks(_, _, _)
SelectTracks(st, filenames, n) ==
    IF n > Len(filenames) THEN st
    ELSE LET i == QuerySelector(st.cbs, filenames[n])
         IN SelectTracks(IF i # 0
                         THEN Dispatch([st EXCEPT !.cbs[i].checked = TRUE], i)
                         ELSE st,
                         filenames, n + 1)

\* The first folder header whose label, trimmed, is the name; 0 if none
FolderHeader(cbs, folderName) ==
    LET hits == {i \in 1..Len(cbs) :
                    cbs[i].kind = "folder" /\ Trim(cbs[i].label) = folderName}
    IN IF hits = {} THEN 0 ELSE CHOOSE i \in hits : \A j \in hits : i <= j

\* folderNames.forEach(folderName => { ... }): the checkbox of each folder
\* named is checked and told so unless it is checked already, from name n
\* on.  The sublist of the folder is expanded, which no checkbox shows.
RECURSIVE SelectFolders(_, _, _)
SelectFolders(st, folderNames, n) ==
    IF n > Len(folderNames) THEN st
    ELSE LET i == FolderHeader(st.cbs, folderNames[n])
         IN SelectFolders(IF i # 0 /\ ~st.cbs[i].checked
                          THEN Dispatch([st EXCEPT !.cbs[i].checked = TRUE], i)
                          ELSE st,
                          folderNames, n + 1)

\* folderList.split(','); nothing without a folders parameter or with an
\* empty one
FolderListOfUrl(query) ==
    LET folderList == ParamsGet(URLSearchParams(query), <<"f", "o", "l", "d", "e", "r", "s">>)
    IN IF folderList = Null \/ folderList = <<>> THEN <<>>
       ELSE SplitLong(folderList, ",")

\* parts.map(decodeURIComponent)
MapDecode(parts) == [i \in 1..Len(parts) |-> decodeURIComponent(parts[i])]

\* The page as the listeners the initialisation set off have left it
Selected(st) ==
    /\ checkboxes' = st.cbs
    /\ isBulkUpdating' = st.bulk
    /\ search' = Replayed(search, st.written, 1)
    /\ layers' = Collected(st).layers
    /\ onMap' = Collected(st).onMap
    /\ trackLayers' = Collected(st).trackLayers
    /\ loadedTracks' = DOMAIN st.trackLayers
    /\ mapView' = st.mapView

\* The initialisation after addBoatMarker: the tracks of ?tracks= are
\* selected, then the folders of ?folders=, both read from the address as
\* it is when addBoatMarker has returned.  A URIError of decodeURIComponent
\* ends the callback where it is thrown.
ReadTracks ==
    /\ uiPc = "opened"
    /\ pagePc = "marked"
    /\ LET tracks == TrackListOfUrl(search)
           folders == FolderListOfUrl(search)
           tracksThrow == \E i \in 1..Len(tracks) : Malformed(tracks[i])
           foldersThrow == \E i \in 1..Len(folders) : Malformed(folders[i])
           byTracks == SelectTracks(UiState, MapDecode(tracks), 1)
       IN IF tracksThrow
          THEN /\ uiPc' = "threw"
               /\ pagePc' = "rejected"
               /\ UNCHANGED <<checkboxes, isBulkUpdating, search, layers,
                              onMap, trackLayers, loadedTracks, mapView,
                              urlTracks>>
          ELSE /\ urlTracks' = MapDecode(tracks)
               /\ IF foldersThrow
                  THEN /\ uiPc' = "threw"
                       /\ pagePc' = "rejected"
                       /\ Selected(byTracks)
                  ELSE /\ uiPc' = "read"
                       /\ pagePc' = "done"
                       /\ Selected(SelectFolders(byTracks, MapDecode(folders), 1))
    /\ UNCHANGED <<treeVars, gpxVars, engineVars, formatVars, addressVars, boatVars, eventVars, colorVars, probeVars, stepVars,
                   page, remote, sortedTree, boatMarker, fallbackView,
                   lastCall>>

NextUrl ==
    \/ UpdateUrlParams
    \/ Reopen
    \/ FetchGpxTree
    \/ SortTreeByDate
    \/ CreateUIFromTree
    \/ AddBoatMarker
    \/ Waiting /\ \E i \in 1..Len(checkboxes) : ClickCheckbox(i)
    \/ Waiting /\ SelectAll
    \/ Waiting /\ ClearAll
    \/ ReadTracks

SpecUrl == InitUrl /\ [][NextUrl]_vars

\* C21: the identifiers of the checked tracks, written into the tracks
\* parameter by updateUrlParams outside a bulk update and read back by the
\* page initialisation, are the same identifiers in the same order.
C21_TracksSurviveTheUrl ==
    (uiPc \in {"read", "threw"} /\ ~selected.bulk)
        => uiPc = "read" /\ urlTracks = selected.tracks

\* Two identifiers with a comma, a percent sign or an ampersand have made the
\* round trip and the initialisation has checked their checkboxes.
C21_Witness ==
    /\ uiPc = "read"
    /\ ~selected.bulk
    /\ Len(urlTracks) = 2
    /\ urlTracks = selected.tracks
    /\ \A i \in 1..2 : \E k \in 1..Len(urlTracks[i]) :
           urlTracks[i][k] \in {",", "%", "&"}
    /\ \A i \in 1..2 : QuerySelector(checkboxes, urlTracks[i]) # 0
                          /\ checkboxes[QuerySelector(checkboxes, urlTracks[i])].checked
    /\ Len(layers) = 2


\* C23: when the listeners of a click on a folder checkbox have returned,
\* the folder checkbox has the state the click gave it and every checkbox
\* below the folder, of a track or of a folder, has that state too.
C23_FolderClickReachesEveryCheckboxBelow ==
    lastEvent.kind = "folder"
        => /\ checkboxes[lastEvent.target].checked = lastEvent.value
           /\ \A j \in Below(checkboxes, lastEvent.target) :
                 checkboxes[j].checked = lastEvent.value

\* Every layer has handled its event 'loaded' to the end
LoadsCompleted == \A l \in 1..Len(layers) : layers[l].stage = "ready"

\* Something created for the file is on the map: an L.GPX layer, its track
\* layer or its label
ShownOnMap(filename) == \E x \in onMap : layers[x.layer].file = filename

\* C24: once every pending load has completed, a track is a key of
\* loadedTracks and shown on the map if and only if its checkbox is
\* checked, whatever the order of the clicks and the 'loaded' callbacks.
C24_LoadedIffChecked ==
    LoadsCompleted
        => \A i \in 1..Len(checkboxes) :
              checkboxes[i].kind = "track"
                  => /\ checkboxes[i].value \in loadedTracks
                            <=> checkboxes[i].checked
                     /\ ShownOnMap(checkboxes[i].value)
                            <=> checkboxes[i].checked

\* C25: after a click on Select All every checkbox of the track list is
\* checked; after a click on Clear All none is, and once the pending loads
\* have completed loadedTracks is empty and neither an L.GPX layer nor a
\* track layer is on the map.
C25_SelectAllAndClearAll ==
    /\ lastEvent.kind = "selectAll"
          => \A i \in 1..Len(checkboxes) : checkboxes[i].checked
    /\ lastEvent.kind = "clearAll"
          => /\ \A i \in 1..Len(checkboxes) : ~checkboxes[i].checked
             /\ LoadsCompleted
                   => /\ loadedTracks = {}
                      /\ \A x \in onMap : x.kind \notin {"gpx", "sub"}

\* The L.GPX layers on the map that were created for the file
GpxLayersOnMap(filename) ==
    {l \in 1..Len(layers) : layers[l].file = filename /\ Gpx(l) \in onMap}

\* C26: after any sequence of clicks on track checkboxes, folder checkboxes,
\* Select All and Clear All, the map holds at most one L.GPX layer for a
\* file, and once the pending loads have completed every L.GPX layer on the
\* map is the one loadedTracks holds for its file.
C26_OneLayerPerTrack ==
    /\ \A i \in 1..Len(checkboxes) :
          Cardinality(GpxLayersOnMap(checkboxes[i].value)) <= 1
    /\ LoadsCompleted
          => \A l \in 1..Len(layers) :
                Gpx(l) \in onMap
                    => /\ layers[l].file \in DOMAIN trackLayers
                       /\ trackLayers[layers[l].file] = l

\* The folder checkboxes above checkbox i
Ancestors(cbs, i) == {k \in 1..Len(cbs) : i \in Below(cbs, k)}

\* C27: when the listeners of a click on a track checkbox have returned,
\* every folder checkbox above the track is checked if and only if some
\* checkbox below that folder is checked.
C27_FoldersAboveMirrorContents ==
    lastEvent.kind = "track"
        => \A k \in Ancestors(checkboxes, lastEvent.target) :
              checkboxes[k].checked
                  <=> \E j \in Below(checkboxes, k) : checkboxes[j].checked

\* A track two folders deep was unchecked: the inner folder went unchecked
\* with it, the outer one stays checked for what else it holds
C27_Witness ==
    /\ lastEvent.kind = "track"
    /\ ~lastEvent.value
    /\ ~isBulkUpdating
    /\ Cardinality(Ancestors(checkboxes, lastEvent.target)) = 2
    /\ \E k, m \in Ancestors(checkboxes, lastEvent.target) :
          checkboxes[k].checked /\ ~checkboxes[m].checked

-----------------------------------------------------------------------------
(* addBoatMarker step by step.  A call waits for the host once for every  *)
(* getGpxFirstDate of its findMostRecentTrack, then once for              *)
(* fetchGpxText(mostRecent); what lies between two answers of the host    *)
(* runs without interruption.  Calls may overlap, and the host may replace *)
(* a file between two answers.  A boat marker is [id, latlng], id telling  *)
(* the markers L.marker created apart; boatMarker holds a marker or null.  *)
(* A call is [pc, mostRecent, stack]: stack holds the calls of             *)
(* findMostRecentTrack that have not returned, the outermost first.  One   *)
(* of them is [node, stage, i, best, recent]: at "files" it awaits         *)
(* getGpxFirstDate(node.files[i]), at "subs" findMostRecentTrack of        *)
(* subfolder i, at "subDate" getGpxFirstDate(recent) for what that call    *)
(* returned; best is the pair of mostRecent and mostRecentDate.            *)

\* The most calls of addBoatMarker in a behaviour
MaxBoatCalls == 3

BoatListings == { <<PathRootFile, PathInA>> }

BoatContents ==
    { FetchRejects,
      Content(<<Time("1970-01-01T00:00:10Z"), Trkpt("0", "0"), Trkpt("0", "1")>>),
      Content(<<Time("1970-01-01T01:30:10Z"), Trkpt("1", "1")>>),
      Content(<<Time("1970-01-01T01:30:10Z")>>),
      Content(<<Time("1970-01-01T00:00:10Z"), Trkpt("0", "0"), Trkpt("x", "0")>>) }

InitBoat ==
    /\ page \in {"root", "maps"}
    /\ response \in {[kind |-> "tree",
                      paths |-> [i \in 1..Len(l) |->
                                    IF page = "maps"
                                    THEN WEBPAGE_ROOT_DIRECTORY \o S \o l[i]
                                    ELSE l[i]]] : l \in BoatListings}
    /\ remote \in [Range(response.paths) -> BoatContents]
    /\ tree = IF page = "maps" THEN fetchGpxTreeMaps(response)
                               ELSE fetchGpxTree(response)
    /\ treePc = "resolved"
    /\ pagePc = "listed"
    /\ sortedTree = tree
    /\ checkboxes = createUIFromTree(sortedTree, <<>>)
    /\ boatMarker = NullObject
    /\ fallbackView = DefaultCenter
    /\ mapView = DefaultCenter
    /\ loadedTracks = {}
    /\ IdleGpx
    /\ IdleProbe
    /\ IdleSteps
    /\ IdleLayers
    /\ IdleEngine
    /\ IdleAddress
    /\ IdleFormat
    /\ IdleBoat
    /\ IdleEvent
    /\ IdleColor
    /\ IdleUi

\* The host replaces the file at a path
HostReplaces(pth, content) ==
    /\ remote[pth] # content
    /\ remote' = [remote EXCEPT ![pth] = content]
    /\ UNCHANGED <<treeVars, gpxVars, engineVars, addressVars, formatVars, probeVars, stepVars, layerVars, uiVars,
                   colorVars, eventVars, boatVars, page, sortedTree, pagePc,
                   checkboxes, boatMarker, fallbackView, mapView, loadedTracks>>

\* if (date > mostRecentDate) { mostRecent = track; mostRecentDate = date; }
Later(best, track, date) ==
    IF NumGt(date, best.date) THEN [track |-> track, date |-> date] ELSE best

\* findMostRecentTrack run until it awaits an answer of the host or the
\* outermost call returns: [done, value, stack]
RECURSIVE EnterNode(_, _)
RECURSIVE EnterSubfolders(_, _, _, _)
RECURSIVE ReturnTrack(_, _)

\* findMostRecentTrack(node) is called
EnterNode(stack, node) ==
    IF Len(node.files) > 0
    THEN [done |-> FALSE, value |-> Null,
          stack |-> Append(stack, [node |-> node, stage |-> "files", i |-> 1,
                                   best |-> [track |-> Null, date |-> Epoch],
                                   recent |-> Null])]
    ELSE EnterSubfolders(stack, node, 1, [track |-> Null, date |-> Epoch])

\* The loop over Object.values(node.subfolders) from subfolder i on
EnterSubfolders(stack, node, i, best) ==
    IF i > Len(node.subfolders) THEN ReturnTrack(stack, best.track)
    ELSE EnterNode(Append(stack, [node |-> node, stage |-> "subs", i |-> i,
                                  best |-> best, recent |-> Null]),
                   node.subfolders[i].node)

\* return mostRecent: the caller goes on with if (recentInSub)
ReturnTrack(stack, value) ==
    IF stack = <<>> THEN [done |-> TRUE, value |-> value, stack |-> <<>>]
    ELSE LET top == stack[Len(stack)]
             below == SubSeq(stack, 1, Len(stack) - 1)
         IN IF value # Null
            THEN [done |-> FALSE, value |-> Null,
                  stack |-> Append(below, [top EXCEPT !.stage = "subDate",
                                                      !.recent = value])]
            ELSE EnterSubfolders(below, top.node, top.i + 1, top.best)

\* The path whose first date the innermost call awaits
Awaited(stack) ==
    LET top == stack[Len(stack)]
    IN IF top.stage = "files" THEN top.node.files[top.i] ELSE top.recent

\* The awaited getGpxFirstDate has resolved to date
Resumed(stack, date) ==
    LET top == stack[Len(stack)]
        below == SubSeq(stack, 1, Len(stack) - 1)
        best == Later(top.best, Awaited(stack), date)
    IN IF top.stage = "files"
       THEN IF top.i < Len(top.node.files)
            THEN [done |-> FALSE, value |-> Null,
                  stack |-> Append(below, [top EXCEPT !.i = top.i + 1,
                                                      !.best = best])]
            ELSE EnterSubfolders(below, top.node, 1, best)
       ELSE EnterSubfolders(below, top.node, top.i + 1, best)

\* const mostRecent = await findMostRecentTrack(tree): the call as it
\* stands when findMostRecentTrack awaits the host or has returned; the
\* call returns when there is no most recent track, and stops at
\* await fetchGpxText(mostRecent) otherwise
Awaiting(run) ==
    IF ~run.done
    THEN [pc |-> "finding", mostRecent |-> Null, stack |-> run.stack]
    ELSE IF run.value = Null
    THEN [pc |-> "returned", mostRecent |-> Null, stack |-> <<>>]
    ELSE [pc |-> "fetching", mostRecent |-> run.value, stack |-> <<>>]

\* addBoatMarker(sortedTree) is called and runs to the first request of
\* findMostRecentTrack(tree)
CallAddBoatMarker ==
    /\ Len(boatCalls) < MaxBoatCalls
    /\ boatCalls' = Append(boatCalls, Awaiting(EnterNode(<<>>, sortedTree)))
    /\ UNCHANGED <<treeVars, gpxVars, engineVars, addressVars, formatVars, probeVars, stepVars, layerVars, uiVars,
                   colorVars, eventVars, pageVars, markers, markerCount>>

\* The host answers the request of the getGpxFirstDate that call c awaits,
\* with the file it has at this moment, and findMostRecentTrack runs on to
\* its next request or to its end
DateAnswered(c) ==
    /\ boatCalls[c].pc = "finding"
    /\ LET stack == boatCalls[c].stack
           date == getGpxFirstDate(Awaited(stack))
       IN boatCalls' = [boatCalls EXCEPT ![c] = Awaiting(Resumed(stack, date))]
    /\ UNCHANGED <<treeVars, gpxVars, engineVars, addressVars, formatVars, probeVars, stepVars, layerVars, uiVars,
                   colorVars, eventVars, pageVars, markers, markerCount>>

\* if (boatMarker) map.removeLayer(boatMarker)
RemoveBoatMarker(marker, held) ==
    IF marker # NullObject THEN held \ {marker} ELSE held

\* The marker is put on the map beside the one that is there
PlaceBesideOld(marker, held, created) == held \cup {created}

\* if (boatMarker) map.removeLayer(boatMarker);
\* boatMarker = L.marker([lat, lon], ...).addTo(map): the markers the map
\* holds afterwards
PlaceBoatMarker(marker, held, created) ==
    RemoveBoatMarker(marker, held) \cup {created}

\* fetchGpxText has settled for call c and the call runs to its end.
\* L.marker throws on a NaN coordinate, after the old marker was removed.
TextFetched(c) ==
    /\ boatCalls[c].pc = "fetching"
    /\ LET res == fetchGpxText(boatCalls[c].mostRecent)
           trkpts == SelectSeq(res.text, IsTrkpt)
           lastPt == trkpts[Len(trkpts)]
           lat == ParseFloat(lastPt.lat)
           lon == ParseFloat(lastPt.lon)
           created == [id |-> markerCount + 1, latlng |-> LatLng(lat, lon)]
       IN IF ~res.ok
          THEN /\ boatCalls' = [boatCalls EXCEPT ![c].pc = "rejected"]
               /\ UNCHANGED <<boatMarker, fallbackView, markers, markerCount>>
          ELSE IF Len(trkpts) = 0
          THEN /\ boatCalls' = [boatCalls EXCEPT ![c].pc = "returned"]
               /\ UNCHANGED <<boatMarker, fallbackView, markers, markerCount>>
          ELSE IF IsNaN(lat) \/ IsNaN(lon)
          THEN /\ boatCalls' = [boatCalls EXCEPT ![c].pc = "rejected"]
               /\ markers' = RemoveBoatMarker(boatMarker, markers)
               /\ UNCHANGED <<boatMarker, fallbackView, markerCount>>
          ELSE /\ boatCalls' = [boatCalls EXCEPT ![c].pc = "returned"]
               /\ markers' = PlaceBoatMarker(boatMarker, markers, created)
               /\ boatMarker' = created
               /\ markerCount' = markerCount + 1
               /\ fallbackView' = created.latlng
    /\ UNCHANGED <<treeVars, gpxVars, engineVars, addressVars, formatVars, probeVars, stepVars, layerVars, uiVars,
                   colorVars, eventVars, page, remote, sortedTree, pagePc,
                   checkboxes, mapView, loadedTracks>>

NextBoat ==
    \/ CallAddBoatMarker
    \/ \E c \in 1..Len(boatCalls) : DateAnswered(c)
    \/ \E c \in 1..Len(boatCalls) : TextFetched(c)
    \/ \E pth \in DOMAIN remote : \E content \in BoatContents :
          HostReplaces(pth, content)

SpecBoat == InitBoat /\ [][NextBoat]_vars

\* Call c has returned without a most recent track or without a <trkpt>
ReturnsEarly(c) ==
    /\ boatCalls[c].pc # "returned"
    /\ boatCalls'[c].pc = "returned"
    /\ \/ boatCalls[c].pc = "finding"
       \/ Len(SelectSeq(fetchGpxText(boatCalls[c].mostRecent).text, IsTrkpt)) = 0

\* C29: whatever calls of addBoatMarker have run or are running, the map
\* holds at most one boat marker, it is the one boatMarker refers to, and
\* fallbackView.center is its position; and a call that finds no most
\* recent track or no <trkpt> leaves the marker on the map, boatMarker and
\* fallbackView as they were.
C29_AtMostOneBoatMarker ==
    /\ [](/\ Cardinality(markers) <= 1
          /\ \A m \in markers : boatMarker = m /\ fallbackView = m.latlng)
    /\ [][\A c \in 1..Len(boatCalls) :
             ReturnsEarly(c)
                 => UNCHANGED <<markers, boatMarker, fallbackView>>]_vars

\* A later call has replaced the marker of an earlier one at another place
\* while a third call is in the middle of its search, inside the subfolder
C29_Witness ==
    /\ markerCount >= 2
    /\ markers = {boatMarker}
    /\ boatMarker.id = markerCount
    /\ fallbackView = boatMarker.latlng
    /\ fallbackView # DefaultCenter
    /\ \E c \in 1..Len(boatCalls) :
          boatCalls[c].pc = "finding" /\ Len(boatCalls[c].stack) = 2

-----------------------------------------------------------------------------
(* formatDurationDistance applied to what parseGpxInfo returned.  The text *)
(* it returns is a tuple of characters.                                    *)

\* The decimal digits of a natural number
RECURSIVE DecimalOf(_)
DecimalOf(n) ==
    IF n < 10 THEN <<DigitChar(n)>>
    ELSE DecimalOf(n \div 10) \o <<DigitChar(n % 10)>>

\* `${x}` for a number that is an integer, or NaN
NumberToString(x) ==
    IF x.nan THEN <<"N", "a", "N">>
    ELSE IF x.val < 0 THEN <<"-">> \o DecimalOf(-x.val)
    ELSE DecimalOf(x.val)

\* Math.floor(a / b) for an integer a and b > 0
FloorDiv(a, b) == IF a.nan THEN NaN ELSE Num(a.val \div b)

\* a % b of JavaScript for b > 0: the remainder has the sign of a
Rem(a, b) ==
    IF a.nan THEN NaN
    ELSE IF a.val >= 0 THEN Num(a.val % b) ELSE Num(-((-a.val) % b))

\* (distanceMeters * 0.000539957).toFixed(1) for distanceMeters >= 0: the
\* tenths of a nautical mile, rounded to the nearest, as "i.t".  The product
\* is taken in two parts, thousands of metres and the rest, to stay within
\* 32 bits.
NauticalMilesToFixed1(distanceMeters) ==
    IF distanceMeters.nan THEN <<"N", "a", "N">>
    ELSE LET thousands == (distanceMeters.val \div 1000) * 539957
             rest == ((distanceMeters.val % 1000) * 539957) \div 1000
             tenths == (thousands + rest + 50000) \div 100000
         IN DecimalOf(tenths \div 10) \o <<".">> \o DecimalOf(tenths % 10)

\* The character U+2022 of the template literal, written by its code point
Bullet == "U+2022"

\* formatDurationDistance(durationSeconds, distanceMeters)
formatDurationDistance(durationSeconds, distanceMeters) ==
    LET hours == FloorDiv(durationSeconds, 3600)
        minutes == FloorDiv(Rem(durationSeconds, 3600), 60)
        timeStr == NumberToString(hours) \o <<"h", " ">>
                     \o NumberToString(minutes) \o <<"m">>
        distStr == NauticalMilesToFixed1(distanceMeters) \o <<" ", "n", "m">>
    IN timeStr \o <<" ", Bullet, " ">> \o distStr

\* const summary = formatDurationDistance(info.durationSeconds,
\* info.distanceMeters) of the 'loaded' handler
FormatDurationDistance ==
    /\ gpxPc = "parsed"
    /\ summary' = formatDurationDistance(info.durationSeconds,
                                         info.distanceMeters)
    /\ gpxPc' = "formatted"
    /\ UNCHANGED <<gpxText, info, treeVars, engineVars, addressVars, pageVars, probeVars, stepVars,
                   layerVars, uiVars, colorVars, eventVars, boatVars>>

NextFormat ==
    \/ ParseGpxInfo
    \/ FormatDurationDistance

SpecFormat == InitGpx /\ [][NextFormat]_vars

\* C30: for an integer durationSeconds that parseGpxInfo returned, negative
\* or not, the text of formatDurationDistance starts with "<h>h <m>m " where
\* 0 <= m <= 59 and h * 60 + m is durationSeconds / 60 rounded down.
C30_HoursAndMinutesOfTheDuration ==
    (gpxPc = "formatted" /\ ~info.durationSeconds.nan)
        => LET total == info.durationSeconds.val \div 60
               h == total \div 60
               m == total % 60
           IN StartsWith(summary,
                         NumberToString(Num(h)) \o <<"h", " ">>
                           \o NumberToString(Num(m)) \o <<"m", " ">>)

=============================================================================
